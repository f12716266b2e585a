---------------------------- MODULE IssuesProofs ----------------------------
(***************************************************************************)
(* The theorems about Issues, for every board, every number of requests    *)
(* and every place where a transaction may time out or a handler die.      *)
(*                                                                         *)
(* The inductive invariant has three parts: what is stored (StoreOK), what *)
(* each request has read and written so far (RequestOK), and that the row  *)
(* locks keep two requests from writing the same row (OneCreate,           *)
(* OneWriter).  Only Commit changes the store.  Every other step changes   *)
(* the entries of one request alone: it is Quiet, and a quiet step keeps   *)
(* the invariant.                                                          *)
(***************************************************************************)
EXTENDS Issues, RankProofs

Fields == {"op", "actor", "id", "before", "data", "above", "below", "floor", "todo"}
Editable == {"status", "rank", "assignee"}
Late == {"audit", "emit", "notify", "commit"}

\* A request whose transaction holds a row version that is not committed yet.
HasWritten(r) == tx[r] = "open" /\ pc[r] \in Late

\* The input and the reads of a request that has started.
CallOK(r) ==
  /\ DOMAIN call[r] = Fields
  /\ call[r].op \in {"create", "update", "move", "remove"}
  /\ call[r].op = "create" =>
       /\ DOMAIN call[r].data = Columns
       /\ pc[r] \notin {"above", "below", "write"}
       /\ pc[r] = "place" => call[r].id = None
  /\ call[r].op # "create" => call[r].id \in Issues /\ pc[r] # "place"
  /\ call[r].op \in {"update", "move"} => DOMAIN call[r].data \subseteq Editable

\* The row version agrees with the stored row where the request set nothing.
WriteOK(r) ==
  /\ call[r].id \in Issues
  /\ call[r].op # "remove" => DOMAIN pending[r] = Columns
  /\ call[r].op = "create" => /\ call[r].id \notin DOMAIN issue
                              /\ pending[r].number = call[r].data.number
  /\ call[r].op # "create" => call[r].id \in DOMAIN issue
  /\ call[r].op \in {"update", "move"} =>
       \A c \in Columns \ DOMAIN call[r].data : pending[r][c] = issue[call[r].id][c]

RequestOK(r) ==
  /\ tx[r] = "open" => pc[r] \notin {"new", "done"}
  /\ pc[r] # "new" => CallOK(r)
  /\ HasWritten(r) => WriteOK(r)
  /\ HoldsProject(r) => call[r].data.number = counter + 1

StoreOK ==
  /\ counter \in Nat
  /\ DOMAIN issue \subseteq Issues
  /\ \A i \in DOMAIN issue : /\ DOMAIN issue[i] = Columns
                             /\ issue[i].number \in Nat /\ issue[i].number <= counter
  /\ \A i, j \in DOMAIN issue : issue[i].number = issue[j].number => i = j

\* A stored row was seeded, or is the row of a request that has started.
IdsKnown ==
  \A i \in DOMAIN issue : \/ \E k \in DOMAIN Seed : i = Seed[k]
                          \/ \E q \in Requests : pc[q] # "new" /\ call[q].id = i

OneCreate == \A q, r \in Requests : HoldsProject(q) /\ HoldsProject(r) => q = r
OneWriter ==
  \A q, r \in Requests : HasWritten(q) /\ HasWritten(r) /\ call[q].id = call[r].id => q = r

Domains == DOMAIN pc = Requests /\ DOMAIN tx = Requests
             /\ DOMAIN call = Requests /\ DOMAIN pending = Requests

IInv ==
  /\ Domains /\ StoreOK /\ IdsKnown /\ OneCreate /\ OneWriter
  /\ \A r \in Requests : RequestOK(r)

-----------------------------------------------------------------------------
(* Quiet steps.                                                            *)

Same(q) == pc'[q] = pc[q] /\ tx'[q] = tx[q] /\ call'[q] = call[q] /\ pending'[q] = pending[q]

Quiet(r) ==
  /\ UNCHANGED store
  /\ \A q \in Requests \ {r} : Same(q)
  /\ Domains' /\ RequestOK(r)'
  /\ pc[r] # "new" => pc'[r] # "new" /\ call[r].id \in {call'[r].id, None}
  /\ HoldsProject(r)' => HoldsProject(r) \/ \A q \in Requests : ~HoldsProject(q)
  /\ HasWritten(r)' => \/ HasWritten(r) /\ call'[r].id = call[r].id
                       \/ \A q \in Requests : HasWritten(q) => call[q].id # call'[r].id

\* What a request holds stays in order while another one takes a quiet step.
LEMMA Frame ==
  ASSUME NEW q \in Requests, Same(q), UNCHANGED store
  PROVE  /\ RequestOK(q)' <=> RequestOK(q)
         /\ HoldsProject(q)' <=> HoldsProject(q)
         /\ HasWritten(q)' <=> HasWritten(q)
BY DEF Same, store, RequestOK, HoldsProject, HasWritten, WriteOK, CallOK

LEMMA QuietKeepsInv ==
  ASSUME IssuesAssumption, IInv, NEW r \in Requests, Quiet(r)
  PROVE  IInv'
<1>1. counter' = counter /\ issue' = issue
  BY DEF Quiet, store
<1>2. \A q \in Requests \ {r} : Same(q) /\ (RequestOK(q)' <=> RequestOK(q))
         /\ (HoldsProject(q)' <=> HoldsProject(q)) /\ (HasWritten(q)' <=> HasWritten(q))
  BY Frame DEF Quiet
<1>3. Domains' /\ \A q \in Requests : RequestOK(q)'
  BY <1>2 DEF Quiet, IInv
<1>4. StoreOK'
  BY <1>1 DEF StoreOK, IInv
<1>5. IdsKnown'
  <2> SUFFICES ASSUME NEW i \in DOMAIN issue, ~\E k \in DOMAIN Seed : i = Seed[k]
               PROVE  \E q \in Requests : pc'[q] # "new" /\ call'[q].id = i
    BY <1>1 DEF IdsKnown
  <2>1. PICK q \in Requests : pc[q] # "new" /\ call[q].id = i
    BY DEF IInv, IdsKnown
  <2>2. i # None
    BY DEF IInv, StoreOK, IssuesAssumption
  <2>3. CASE q = r
    BY <2>1, <2>2, <2>3 DEF Quiet
  <2>4. CASE q # r
    BY <1>2, <2>1, <2>4 DEF Same
  <2> QED
    BY <2>3, <2>4
<1>6. OneCreate'
  BY <1>2 DEF OneCreate, Quiet, IInv
<1>7. OneWriter'
  <2> SUFFICES ASSUME NEW p \in Requests, NEW q \in Requests, HasWritten(p)', HasWritten(q)',
                      call'[p].id = call'[q].id, p # q
               PROVE  FALSE
    BY DEF OneWriter
  <2>1. \A x \in Requests \ {r} : call'[x].id = call[x].id /\ (HasWritten(x)' <=> HasWritten(x))
    BY <1>2 DEF Same
  <2>2. CASE p # r /\ q # r
    BY <2>1, <2>2 DEF OneWriter, IInv
  <2>3. CASE p = r
    BY <2>1, <2>3 DEF OneWriter, IInv, Quiet
  <2>4. CASE q = r
    BY <2>1, <2>4 DEF OneWriter, IInv, Quiet
  <2> QED
    BY <2>2, <2>3, <2>4
<1> QED
  BY <1>3, <1>4, <1>5, <1>6, <1>7 DEF IInv

\* A request that starts: its record is well formed and nothing is written yet.
LEMMA OpenIsQuiet ==
  ASSUME IInv, NEW r \in Requests, NEW label \in {"place", "above", "write"}, NEW c,
         Open(r, label, c),
         DOMAIN c = Fields, c.op \in {"create", "update", "move", "remove"},
         c.op = "create" => /\ label = "place" /\ c.id = None /\ DOMAIN c.data = Columns
                            /\ c.data.number = counter + 1
                            /\ \A q \in Requests : ~HoldsProject(q),
         c.op # "create" => label # "place" /\ c.id \in Issues,
         c.op \in {"update", "move"} => DOMAIN c.data \subseteq Editable
  PROVE  Quiet(r)
<1>1. /\ UNCHANGED store /\ UNCHANGED pending /\ pc[r] = "new"
      /\ pc' = [pc EXCEPT ![r] = label] /\ tx' = [tx EXCEPT ![r] = "open"]
      /\ call' = [call EXCEPT ![r] = c]
  BY DEF Open, store
<1>2. Domains
  BY DEF IInv
<1>3. pc'[r] = label /\ tx'[r] = "open" /\ call'[r] = c /\ Domains'
  BY <1>1, <1>2 DEF Domains
<1>4. \A q \in Requests \ {r} : Same(q)
  BY <1>1, <1>2 DEF Domains, Same
<1>5. ~HasWritten(r)'
  BY <1>3 DEF HasWritten, Late
<1>6. CallOK(r)'
  BY <1>3 DEF CallOK
<1>7. RequestOK(r)'
  BY <1>1, <1>3, <1>5, <1>6 DEF RequestOK, HoldsProject, store
<1>8. HoldsProject(r)' => \A q \in Requests : ~HoldsProject(q)
  BY <1>3 DEF HoldsProject
<1> QED
  BY <1>1, <1>3, <1>4, <1>5, <1>7, <1>8 DEF Quiet

LEMMA CreateCountIsQuiet ==
  ASSUME IInv, NEW r \in Requests, NEW u, NEW s, NEW a, CreateCount(r, u, s, a)
  PROVE  Quiet(r)
<1> DEFINE data == [number |-> counter + 1, status |-> s, rank |-> None,
                    assignee |-> a, reporter |-> u]
           c == [op |-> "create", actor |-> u, id |-> None, before |-> None, data |-> data,
                 above |-> None, below |-> None, floor |-> None, todo |-> {}]
<1>1. Open(r, "place", c) /\ \A q \in Requests : ~HoldsProject(q)
  BY DEF CreateCount
<1>2. DOMAIN data = Columns /\ data.number = counter + 1
  BY DEF Columns
<1>3. DOMAIN c = Fields /\ c.op = "create" /\ c.id = None /\ c.data = data
  BY DEF Fields
<1> HIDE DEF c, data
<1> QED
  BY <1>1, <1>2, <1>3, OpenIsQuiet

LEMMA UpdateReadIsQuiet ==
  ASSUME IInv, NEW r \in Requests, NEW u, NEW i \in Issues, NEW d \in Inputs,
         UpdateRead(r, u, i, d)
  PROVE  Quiet(r)
<1> DEFINE c == [op |-> "update", actor |-> u, id |-> i, before |-> issue[i], data |-> d,
                 above |-> None, below |-> None, floor |-> None, todo |-> {}]
<1>1. Open(r, "write", c)
  BY DEF UpdateRead
<1>2. DOMAIN d \subseteq Editable
  BY DEF Inputs, Editable
<1>3. DOMAIN c = Fields /\ c.op = "update" /\ c.id = i /\ c.data = d
  BY DEF Fields
<1> HIDE DEF c
<1> QED
  BY <1>1, <1>2, <1>3, OpenIsQuiet

LEMMA MoveReadIsQuiet ==
  ASSUME IInv, NEW r \in Requests, NEW u, NEW i \in Issues, NEW s, MoveRead(r, u, i, s)
  PROVE  Quiet(r)
<1>1. PICK gap \in Gaps(i, s) :
        Open(r, "above", [op |-> "move", actor |-> u, id |-> i, before |-> issue[i],
                          data |-> [status |-> s],
                          above |-> gap[1], below |-> gap[2], floor |-> None, todo |-> {}])
  BY DEF MoveRead
<1> DEFINE c == [op |-> "move", actor |-> u, id |-> i, before |-> issue[i],
                 data |-> [status |-> s],
                 above |-> gap[1], below |-> gap[2], floor |-> None, todo |-> {}]
<1>2. DOMAIN c = Fields /\ c.op = "move" /\ c.id = i /\ DOMAIN c.data \subseteq Editable
  BY DEF Fields, Editable
<1>3. Open(r, "above", c)
  BY <1>1
<1> HIDE DEF c
<1> QED
  BY <1>2, <1>3, OpenIsQuiet

LEMMA RemoveReadIsQuiet ==
  ASSUME IInv, NEW r \in Requests, NEW u, NEW i \in Issues, RemoveRead(r, u, i)
  PROVE  Quiet(r)
<1> DEFINE c == [op |-> "remove", actor |-> u, id |-> i, before |-> issue[i], data |-> <<>>,
                 above |-> None, below |-> None, floor |-> None, todo |-> {}]
<1>1. Open(r, "write", c)
  BY DEF RemoveRead
<1>2. DOMAIN c = Fields /\ c.op = "remove" /\ c.id = i
  BY DEF Fields
<1> HIDE DEF c
<1> QED
  BY <1>1, <1>2, OpenIsQuiet

\* A request that goes on, ends or loses its transaction, and writes nothing.
LEMMA AdvanceIsQuiet ==
  ASSUME IInv, NEW r \in Requests, UNCHANGED store,
         \A q \in Requests \ {r} : Same(q), Domains',
         pc[r] # "new",
         \/ pc'[r] \in Late \cup {"done"}
         \/ pc'[r] = "below" /\ call[r].op # "create"
         \/ pc'[r] = pc[r],
         tx'[r] \in {tx[r], "aborted"}, tx'[r] = "open" => pc'[r] # "done",
         HasWritten(r)' => HasWritten(r),
         pending'[r] = pending[r], DOMAIN call'[r] = DOMAIN call[r],
         call'[r].op = call[r].op, call'[r].id = call[r].id, call'[r].data = call[r].data
  PROVE  Quiet(r)
<1>1. RequestOK(r) /\ CallOK(r)
  BY DEF IInv, RequestOK
<1>2. pc'[r] \notin {"new", "place"} \/ pc'[r] = pc[r]
  BY DEF Late
<1>3. CallOK(r)'
  BY <1>1, <1>2 DEF CallOK, Late
<1>4. HasWritten(r)' => WriteOK(r)'
  BY <1>1 DEF RequestOK, WriteOK, store
<1>5. HoldsProject(r)' => HoldsProject(r)
  BY DEF HoldsProject
<1>6. tx'[r] = "open" => pc'[r] \notin {"new", "done"}
  BY <1>1, <1>2 DEF Late
<1>7. RequestOK(r)'
  BY <1>1, <1>3, <1>4, <1>5, <1>6 DEF RequestOK, store
<1> QED
  BY <1>2, <1>5, <1>7, <1>3 DEF Quiet

LEMMA AuditIsQuiet ==
  ASSUME IInv, NEW r \in Requests, Audit(r)
  PROVE  Quiet(r)
<1>1. /\ pc[r] = "audit" /\ pc' = [pc EXCEPT ![r] = "emit"]
      /\ UNCHANGED store /\ tx' = tx /\ call' = call /\ pending' = pending
  BY DEF Audit, Goto, store
<1>2. Domains
  BY DEF IInv
<1>3. pc'[r] = "emit" /\ Domains' /\ \A q \in Requests \ {r} : Same(q)
  BY <1>1, <1>2 DEF Domains, Same
<1>4. HasWritten(r)' => HasWritten(r)
  BY <1>1 DEF HasWritten, Late
<1> QED
  BY <1>1, <1>3, <1>4, AdvanceIsQuiet DEF Late

LEMMA EmitIsQuiet ==
  ASSUME IInv, NEW r \in Requests, Emit(r)
  PROVE  Quiet(r)
<1> DEFINE next == IF Recipients(r) = {} THEN "commit" ELSE "notify"
           todo == Recipients(r)
<1>1. /\ pc[r] = "emit" /\ pc' = [pc EXCEPT ![r] = next]
      /\ UNCHANGED store /\ tx' = tx /\ pending' = pending
      /\ call' = [call EXCEPT ![r] = [call[r] EXCEPT !.todo = todo]]
  BY DEF Emit, Goto, store
<1>2. next \in {"commit", "notify"}
  OBVIOUS
<1> HIDE DEF next, todo
<1>3. Domains /\ CallOK(r)
  BY <1>1 DEF IInv, RequestOK
<1>4. pc'[r] = next /\ Domains' /\ \A q \in Requests \ {r} : Same(q)
  BY <1>1, <1>3 DEF Domains, Same
<1>5. call'[r] = [call[r] EXCEPT !.todo = todo]
  BY <1>1, <1>3 DEF Domains
<1>6. /\ DOMAIN call'[r] = DOMAIN call[r] /\ call'[r].op = call[r].op
      /\ call'[r].id = call[r].id /\ call'[r].data = call[r].data
  BY <1>3, <1>5 DEF CallOK, Fields
<1>7. HasWritten(r)' => HasWritten(r)
  BY <1>1 DEF HasWritten, Late
<1> QED
  BY <1>1, <1>2, <1>4, <1>6, <1>7, AdvanceIsQuiet DEF Late

LEMMA NotifyIsQuiet ==
  ASSUME IInv, NEW r \in Requests, Notify(r)
  PROVE  Quiet(r)
<1>1. PICK n \in call[r].todo :
        /\ call' = [call EXCEPT ![r].todo = @ \ {n}]
        /\ Goto(r, IF call[r].todo = {n} THEN "commit" ELSE "notify")
  BY DEF Notify
<1> DEFINE next == IF call[r].todo = {n} THEN "commit" ELSE "notify"
           todo == call[r].todo \ {n}
<1>2. /\ pc[r] = "notify" /\ pc' = [pc EXCEPT ![r] = next]
      /\ UNCHANGED store /\ tx' = tx /\ pending' = pending
      /\ call' = [call EXCEPT ![r] = [call[r] EXCEPT !.todo = todo]]
  BY <1>1 DEF Notify, Goto, store
<1>3. next \in {"commit", "notify"}
  OBVIOUS
<1> HIDE DEF next, todo
<1>4. Domains /\ CallOK(r)
  BY <1>2 DEF IInv, RequestOK
<1>5. pc'[r] = next /\ Domains' /\ \A q \in Requests \ {r} : Same(q)
  BY <1>2, <1>4 DEF Domains, Same
<1>6. call'[r] = [call[r] EXCEPT !.todo = todo]
  BY <1>2, <1>4 DEF Domains
<1>7. /\ DOMAIN call'[r] = DOMAIN call[r] /\ call'[r].op = call[r].op
      /\ call'[r].id = call[r].id /\ call'[r].data = call[r].data
  BY <1>4, <1>6 DEF CallOK, Fields
<1>8. HasWritten(r)' => HasWritten(r)
  BY <1>2 DEF HasWritten, Late
<1> QED
  BY <1>2, <1>3, <1>5, <1>7, <1>8, AdvanceIsQuiet DEF Late

LEMMA ExpiredIsQuiet ==
  ASSUME IInv, NEW r \in Requests, Expired(r)
  PROVE  Quiet(r)
<1>1. /\ pc[r] # "new" /\ tx[r] = "aborted" /\ pc' = [pc EXCEPT ![r] = "done"]
      /\ UNCHANGED store /\ tx' = tx /\ call' = call /\ pending' = pending
  BY DEF Expired, Goto, store
<1>2. Domains
  BY DEF IInv
<1>3. pc'[r] = "done" /\ Domains' /\ \A q \in Requests \ {r} : Same(q)
  BY <1>1, <1>2 DEF Domains, Same
<1>4. ~HasWritten(r)'
  BY <1>1 DEF HasWritten
<1> QED
  BY <1>1, <1>3, <1>4, AdvanceIsQuiet

LEMMA TimeoutIsQuiet ==
  ASSUME IInv, NEW r \in Requests, Timeout(r)
  PROVE  Quiet(r)
<1>1. /\ tx[r] = "open" /\ tx' = [tx EXCEPT ![r] = "aborted"]
      /\ UNCHANGED store /\ pc' = pc /\ call' = call /\ pending' = pending
  BY DEF Timeout, store
<1>2. Domains /\ pc[r] # "new"
  BY <1>1 DEF IInv, RequestOK
<1>3. tx'[r] = "aborted" /\ Domains' /\ \A q \in Requests \ {r} : Same(q)
  BY <1>1, <1>2 DEF Domains, Same
<1>4. ~HasWritten(r)'
  BY <1>3 DEF HasWritten
<1> QED
  BY <1>1, <1>2, <1>3, <1>4, AdvanceIsQuiet

\* A handler that throws: of itself (MoveRank, Write) or because it dies.
LEMMA ThrowIsQuiet ==
  ASSUME IInv, NEW r \in Requests, pc[r] # "new", Throw(r), UNCHANGED <<store, call, pending>>
  PROVE  Quiet(r)
<1>1. /\ tx' = [tx EXCEPT ![r] = "aborted"] /\ pc' = [pc EXCEPT ![r] = "done"]
      /\ UNCHANGED store /\ call' = call /\ pending' = pending
  BY DEF Throw, store
<1>2. Domains
  BY DEF IInv
<1>3. /\ tx'[r] = "aborted" /\ pc'[r] = "done"
      /\ Domains' /\ \A q \in Requests \ {r} : Same(q)
  BY <1>1, <1>2 DEF Domains, Same
<1>4. ~HasWritten(r)'
  BY <1>3 DEF HasWritten
<1> QED
  BY <1>1, <1>3, <1>4, AdvanceIsQuiet

LEMMA DieIsQuiet ==
  ASSUME IInv, NEW r \in Requests, Die(r)
  PROVE  Quiet(r)
<1>1. pc[r] # "new" /\ Throw(r) /\ UNCHANGED <<store, call, pending>>
  BY DEF Die, InProgress, store
<1> QED
  BY <1>1, ThrowIsQuiet

LEMMA MoveAboveIsQuiet ==
  ASSUME IInv, NEW r \in Requests, MoveAbove(r)
  PROVE  Quiet(r)
<1> DEFINE floor == NeighbourRank(call[r].above, call[r].data.status)
<1>1. /\ pc[r] = "above" /\ pc' = [pc EXCEPT ![r] = "below"]
      /\ UNCHANGED store /\ tx' = tx /\ pending' = pending
      /\ call' = [call EXCEPT ![r] = [call[r] EXCEPT !.floor = floor]]
  BY DEF MoveAbove, Goto, store
<1> HIDE DEF floor
<1>2. Domains /\ CallOK(r) /\ call[r].op # "create"
  BY <1>1 DEF IInv, RequestOK, CallOK
<1>3. pc'[r] = "below" /\ Domains' /\ \A q \in Requests \ {r} : Same(q)
  BY <1>1, <1>2 DEF Domains, Same
<1>4. call'[r] = [call[r] EXCEPT !.floor = floor]
  BY <1>1, <1>2 DEF Domains
<1>5. /\ DOMAIN call'[r] = DOMAIN call[r] /\ call'[r].op = call[r].op
      /\ call'[r].id = call[r].id /\ call'[r].data = call[r].data
  BY <1>2, <1>4 DEF CallOK, Fields
<1>6. ~HasWritten(r)'
  BY <1>3 DEF HasWritten, Late
<1> QED
  BY <1>1, <1>2, <1>3, <1>5, <1>6, AdvanceIsQuiet

LEMMA MoveRankIsQuiet ==
  ASSUME IInv, NEW r \in Requests, MoveRank(r)
  PROVE  Quiet(r)
<1> DEFINE s == call[r].data.status
           a == call[r].floor
           b == NeighbourRank(call[r].below, s)
           data == [status |-> s, rank |-> RankBetween(a, b)]
<1>1. pc[r] = "below" /\ tx[r] = "open" /\ UNCHANGED store /\ pending' = pending
  BY DEF MoveRank, store
<1>2. Domains /\ CallOK(r) /\ call[r].op # "create"
  BY <1>1 DEF IInv, RequestOK, CallOK
<1>3. CASE ~Ordered(a, b)
  <2>1. Throw(r) /\ call' = call
    BY <1>3 DEF MoveRank
  <2> QED
    BY <1>1, <2>1, ThrowIsQuiet
<1>4. CASE Ordered(a, b)
  <2>1. /\ call' = [call EXCEPT ![r] = [call[r] EXCEPT !.data = data]]
        /\ pc' = [pc EXCEPT ![r] = "write"] /\ tx' = tx
    BY <1>4 DEF MoveRank, Goto
  <2>2. DOMAIN data \subseteq Editable
    BY DEF Editable
  <2> HIDE DEF data, s, a, b
  <2>3. /\ pc'[r] = "write" /\ tx'[r] = "open" /\ Domains'
        /\ \A q \in Requests \ {r} : Same(q)
    BY <1>1, <1>2, <2>1 DEF Domains, Same
  <2>4. call'[r] = [call[r] EXCEPT !.data = data]
    BY <1>2, <2>1 DEF Domains
  <2>5. /\ DOMAIN call'[r] = Fields /\ call'[r].op = call[r].op
        /\ call'[r].id = call[r].id /\ call'[r].data = data
    BY <1>2, <2>4 DEF CallOK, Fields
  <2>6. CallOK(r)'
    BY <1>2, <2>2, <2>3, <2>5 DEF CallOK
  <2>7. ~HasWritten(r)' /\ ~HoldsProject(r)'
    BY <1>2, <2>3, <2>5 DEF HasWritten, HoldsProject, Late
  <2>8. RequestOK(r)'
    BY <2>3, <2>6, <2>7 DEF RequestOK
  <2> QED
    BY <1>1, <2>3, <2>5, <2>7, <2>8 DEF Quiet
<1> QED
  BY <1>3, <1>4

LEMMA CreatePlaceIsQuiet ==
  ASSUME IInv, NEW r \in Requests, NEW i \in Issues, CreatePlace(r, i)
  PROVE  Quiet(r)
<1> DEFINE last == LastRank(call[r].data.status)
           rank == IF last = None THEN FirstRank ELSE RankBetween(last, None)
           row == [call[r].data EXCEPT !.rank = rank]
<1>1. /\ pc[r] = "place" /\ tx[r] = "open" /\ i \notin Used /\ UNCHANGED store /\ tx' = tx
      /\ call' = [call EXCEPT ![r] = [[call[r] EXCEPT !.id = i] EXCEPT !.data = row]]
      /\ pending' = [pending EXCEPT ![r] = row]
      /\ pc' = [pc EXCEPT ![r] = "audit"]
  <2> HIDE DEF rank
  <2> QED
    BY DEF CreatePlace, Goto, store, rank
<1>2. /\ Domains /\ CallOK(r) /\ call[r].op = "create" /\ call[r].id = None
      /\ DOMAIN call[r].data = Columns
  BY <1>1 DEF IInv, RequestOK, CallOK
<1> HIDE DEF last, rank
<1>3. DOMAIN row = Columns /\ row.number = call[r].data.number
  BY <1>2 DEF Columns
<1> HIDE DEF row
<1>4. /\ pc'[r] = "audit" /\ tx'[r] = "open" /\ pending'[r] = row /\ Domains'
      /\ \A q \in Requests \ {r} : Same(q)
  BY <1>1, <1>2 DEF Domains, Same
<1>5. call'[r] = [[call[r] EXCEPT !.id = i] EXCEPT !.data = row]
  BY <1>1, <1>2 DEF Domains
<1>6. /\ DOMAIN call'[r] = Fields /\ call'[r].op = "create"
      /\ call'[r].id = i /\ call'[r].data = row
  BY <1>2, <1>5 DEF CallOK, Fields
<1>7. CallOK(r)'
  BY <1>3, <1>4, <1>6 DEF CallOK
<1>8. (\A q \in Requests : pc[q] # "new" => call[q].id # i) /\ ~\E k \in DOMAIN Seed : i = Seed[k]
  BY <1>1 DEF Used
<1>9. i \notin DOMAIN issue
  BY <1>8 DEF IInv, IdsKnown
<1>10. WriteOK(r)'
  BY <1>1, <1>3, <1>4, <1>6, <1>9 DEF WriteOK, store
<1>11. HoldsProject(r) /\ RequestOK(r)
  BY <1>1, <1>2 DEF HoldsProject, IInv
<1>12. RequestOK(r)'
  BY <1>1, <1>3, <1>4, <1>6, <1>7, <1>10, <1>11 DEF RequestOK, store
<1>13. \A q \in Requests : HasWritten(q) => call[q].id # call'[r].id
  BY <1>6, <1>8 DEF HasWritten, Late
<1> QED
  BY <1>1, <1>2, <1>4, <1>11, <1>12, <1>13 DEF Quiet

LEMMA WriteIsQuiet ==
  ASSUME IInv, NEW r \in Requests, Write(r)
  PROVE  Quiet(r)
<1>1. /\ pc[r] = "write" /\ tx[r] = "open" /\ UNCHANGED store /\ call' = call
      /\ \A q \in Requests : ~HoldsIssue(q, call[r].id)
  BY DEF Write, store
<1>2. Domains /\ CallOK(r) /\ call[r].op # "create" /\ call[r].id \in Issues
  BY <1>1 DEF IInv, RequestOK, CallOK
<1>3. CASE call[r].id \notin DOMAIN issue
  <2>1. Throw(r) /\ pending' = pending
    BY <1>3 DEF Write
  <2> QED
    BY <1>1, <2>1, ThrowIsQuiet
<1>4. CASE call[r].id \in DOMAIN issue
  <2>1. /\ pending' = [pending EXCEPT ![r] = Written(r)]
        /\ pc' = [pc EXCEPT ![r] = "audit"] /\ tx' = tx
    BY <1>4 DEF Write, Goto
  <2>2. /\ pc'[r] = "audit" /\ tx'[r] = "open" /\ pending'[r] = Written(r) /\ Domains'
        /\ \A q \in Requests \ {r} : Same(q)
    BY <1>1, <1>2, <2>1 DEF Domains, Same
  <2>3. CallOK(r)'
    BY <1>1, <1>2, <2>2 DEF CallOK
  <2>4. call[r].op # "remove" => Written(r) = Set(call[r].data, issue[call[r].id])
    BY DEF Written
  <2>5. call[r].op # "remove" =>
          /\ DOMAIN Written(r) = Columns
          /\ \A c \in Columns \ DOMAIN call[r].data : Written(r)[c] = issue[call[r].id][c]
    BY <2>4 DEF Set
  <2>6. WriteOK(r)'
    BY <1>1, <1>2, <1>4, <2>2, <2>5 DEF WriteOK, store
  <2>7. ~HoldsProject(r)'
    BY <1>1, <1>2 DEF HoldsProject
  <2>8. RequestOK(r)'
    BY <2>2, <2>3, <2>6, <2>7 DEF RequestOK
  <2>9. \A q \in Requests : HasWritten(q) => call[q].id # call'[r].id
    BY <1>1 DEF HasWritten, HoldsIssue, Late
  <2> QED
    BY <1>1, <2>2, <2>7, <2>8, <2>9 DEF Quiet
<1> QED
  BY <1>3, <1>4

-----------------------------------------------------------------------------
(* The one step that is not quiet.                                         *)

LEMMA CommitKeepsInv ==
  ASSUME IssuesAssumption, IInv, NEW r \in Requests, Commit(r)
  PROVE  IInv'
<1> DEFINE op == call[r].op
           n == call[r].id
<1>1. /\ tx[r] = "open" /\ pc[r] = "commit"
      /\ issue' = IF op = "remove" THEN Drop(issue, n) ELSE Put(issue, n, pending[r])
      /\ counter' = IF op = "create" THEN call[r].data.number ELSE counter
      /\ tx' = [tx EXCEPT ![r] = "committed"] /\ pc' = [pc EXCEPT ![r] = "done"]
      /\ call' = call /\ pending' = pending
  BY DEF Commit, Goto
<1>2. Domains /\ StoreOK /\ CallOK(r) /\ WriteOK(r) /\ HasWritten(r)
  BY <1>1 DEF IInv, RequestOK, HasWritten, Late
<1>3. /\ pc'[r] = "done" /\ tx'[r] = "committed" /\ Domains'
      /\ \A q \in Requests \ {r} : Same(q)
      /\ \A q \in Requests : call'[q] = call[q] /\ (pc[q] # "new" => pc'[q] # "new")
  BY <1>1, <1>2 DEF Domains, Same
<1>4. ~HasWritten(r)' /\ ~HoldsProject(r)'
  BY <1>3 DEF HasWritten, HoldsProject
<1>5. \A q \in Requests \ {r} : /\ HasWritten(q)' <=> HasWritten(q)
                                /\ HoldsProject(q)' <=> HoldsProject(q)
                                /\ CallOK(q)' <=> CallOK(q)
  BY <1>3 DEF Same, HasWritten, HoldsProject, CallOK
<1>6. op = "create" <=> HoldsProject(r)
  BY <1>1 DEF HoldsProject
<1>7. op = "create" => /\ counter' = counter + 1 /\ pending[r].number = counter + 1
                       /\ n \notin DOMAIN issue
  BY <1>1, <1>2, <1>6 DEF WriteOK, IInv, RequestOK
<1>8. op # "create" => counter' = counter /\ n \in DOMAIN issue
  BY <1>1, <1>2 DEF WriteOK
<1>9. op \in {"update", "move"} => pending[r].number = issue[n].number
  BY <1>2 DEF WriteOK, CallOK, Columns, Editable
<1>10. op \in {"create", "update", "move", "remove"} /\ n \in Issues
       /\ (op # "remove" => DOMAIN pending[r] = Columns)
  BY <1>2 DEF WriteOK, CallOK
<1>11. /\ DOMAIN issue' = IF op = "remove" THEN DOMAIN issue \ {n} ELSE DOMAIN issue \cup {n}
       /\ \A i \in DOMAIN issue' : i # n => i \in DOMAIN issue /\ issue'[i] = issue[i]
       /\ op # "remove" => issue'[n] = pending[r]
  BY <1>1 DEF Put, Drop
<1> HIDE DEF op, n
<1>12. StoreOK'
  <2>1. CASE op = "create"
    BY <1>2, <1>7, <1>10, <1>11, <2>1 DEF StoreOK
  <2>2. CASE op \in {"update", "move"}
    BY <1>2, <1>8, <1>9, <1>10, <1>11, <2>2 DEF StoreOK
  <2>3. CASE op = "remove"
    BY <1>2, <1>8, <1>10, <1>11, <2>3 DEF StoreOK
  <2> QED
    BY <1>10, <2>1, <2>2, <2>3
<1>13. IdsKnown'
  <2> SUFFICES ASSUME NEW i \in DOMAIN issue'
               PROVE  \/ \E k \in DOMAIN Seed : i = Seed[k]
                      \/ \E q \in Requests : pc'[q] # "new" /\ call'[q].id = i
    BY DEF IdsKnown
  <2>1. CASE i = n
    BY <1>3, <2>1 DEF n
  <2>2. CASE i # n
    <3>1. i \in DOMAIN issue
      BY <1>11, <2>2
    <3> QED
      BY <1>3, <3>1 DEF IInv, IdsKnown
  <2> QED
    BY <2>1, <2>2
<1>14. OneCreate'
  BY <1>4, <1>5 DEF OneCreate, IInv
<1>15. OneWriter'
  BY <1>3, <1>4, <1>5 DEF OneWriter, IInv
<1>16. \A q \in Requests : RequestOK(q)'
  <2> SUFFICES ASSUME NEW q \in Requests
               PROVE  RequestOK(q)'
    OBVIOUS
  <2>1. CASE q = r
    <3>1. CallOK(r)'
      BY <1>1, <1>2, <1>3 DEF CallOK
    <3> QED
      BY <1>3, <1>4, <2>1, <3>1 DEF RequestOK
  <2>2. CASE q # r
    <3>1. Same(q) /\ RequestOK(q)
      BY <1>3, <2>2 DEF IInv
    <3>2. HasWritten(q) => WriteOK(q)'
      <4> SUFFICES ASSUME HasWritten(q)
                   PROVE  WriteOK(q)'
        OBVIOUS
      <4>1. call[q].id # n /\ WriteOK(q)
        BY <1>2, <2>2, <3>1 DEF IInv, OneWriter, RequestOK, n
      <4>2. /\ call[q].id \in DOMAIN issue' <=> call[q].id \in DOMAIN issue
            /\ call[q].id \in DOMAIN issue => issue'[call[q].id] = issue[call[q].id]
        BY <1>11, <4>1
      <4> QED
        BY <3>1, <4>1, <4>2 DEF WriteOK, Same
    <3>3. HoldsProject(q) => counter' = counter
      BY <1>6, <1>8, <2>2 DEF IInv, OneCreate
    <3> QED
      BY <1>5, <2>2, <3>1, <3>2, <3>3 DEF RequestOK, Same
  <2> QED
    BY <2>1, <2>2
<1> QED
  BY <1>3, <1>12, <1>13, <1>14, <1>15, <1>16 DEF IInv

-----------------------------------------------------------------------------
(* The invariant holds at the start and every step keeps it.               *)

LEMMA InitIInv ==
  ASSUME IssuesAssumption, Init
  PROVE  IInv
<1>1. Seed \in Seq(Issues) /\ Len(Seed) \in Nat /\ DOMAIN Seed = 1 .. Len(Seed)
  BY DEF IssuesAssumption
<1>2. \A k, l \in DOMAIN Seed : Seed[k] = Seed[l] => k = l
  BY DEF IssuesAssumption
<1>3. \A r \in Requests : pc[r] = "new" /\ tx[r] = "none"
  BY DEF Init
<1>4. counter = Len(Seed) /\ issue = SeedTable
  BY DEF Init
<1> DEFINE at(i) == CHOOSE k \in DOMAIN Seed : Seed[k] = i
<1>5. \A i \in DOMAIN issue : /\ at(i) \in DOMAIN Seed /\ Seed[at(i)] = i
                              /\ issue[i] = SeedRow(at(i))
  BY <1>4 DEF SeedTable
<1> HIDE DEF at
<1>6. \A k : DOMAIN SeedRow(k) = Columns /\ SeedRow(k).number = k
  BY DEF SeedRow, Columns
<1>7. StoreOK
  <2>1. \A i \in DOMAIN issue : i \in Issues /\ DOMAIN issue[i] = Columns
                                /\ issue[i].number = at(i)
    BY <1>1, <1>5, <1>6
  <2>2. \A i \in DOMAIN issue : at(i) \in Nat /\ at(i) <= counter
    BY <1>1, <1>4, <1>5
  <2>3. \A i, j \in DOMAIN issue : at(i) = at(j) => i = j
    BY <1>5
  <2> QED
    BY <1>1, <1>4, <2>1, <2>2, <2>3 DEF StoreOK
<1>8. IdsKnown
  BY <1>5 DEF IdsKnown
<1>9. OneCreate /\ OneWriter /\ \A r \in Requests : RequestOK(r)
  BY <1>3 DEF OneCreate, OneWriter, RequestOK, HasWritten, HoldsProject
<1>10. Domains
  BY DEF Init, Domains
<1> QED
  BY <1>7, <1>8, <1>9, <1>10 DEF IInv

\* Every step but a commit is quiet.
LEMMA StepIsQuietOrCommits ==
  ASSUME IInv, Next
  PROVE  \E r \in Requests : Quiet(r) \/ Commit(r)
<1>1. PICK r \in Requests :
        \/ \E u \in Actors, s \in Statuses, a \in Users \cup {None} : CreateCount(r, u, s, a)
        \/ \E u \in Actors, i \in Issues, d \in Inputs : UpdateRead(r, u, i, d)
        \/ \E u \in Actors, i \in Issues, s \in Statuses : MoveRead(r, u, i, s)
        \/ \E u \in Actors, i \in Issues : RemoveRead(r, u, i)
        \/ Continue(r) \/ Timeout(r) \/ Die(r)
  BY DEF Next
<1>2. ASSUME NEW u \in Actors, NEW s \in Statuses, NEW a \in Users \cup {None},
             CreateCount(r, u, s, a)
      PROVE  Quiet(r)
  BY <1>2, CreateCountIsQuiet
<1>3. ASSUME NEW u \in Actors, NEW i \in Issues, NEW d \in Inputs, UpdateRead(r, u, i, d)
      PROVE  Quiet(r)
  BY <1>3, UpdateReadIsQuiet
<1>4. ASSUME NEW u \in Actors, NEW i \in Issues, NEW s \in Statuses, MoveRead(r, u, i, s)
      PROVE  Quiet(r)
  BY <1>4, MoveReadIsQuiet
<1>5. ASSUME NEW u \in Actors, NEW i \in Issues, RemoveRead(r, u, i)
      PROVE  Quiet(r)
  BY <1>5, RemoveReadIsQuiet
<1>6. ASSUME NEW i \in Issues, CreatePlace(r, i)
      PROVE  Quiet(r)
  BY <1>6, CreatePlaceIsQuiet
<1>7. CASE MoveAbove(r)
  BY <1>7, MoveAboveIsQuiet
<1>8. CASE MoveRank(r)
  BY <1>8, MoveRankIsQuiet
<1>9. CASE Write(r)
  BY <1>9, WriteIsQuiet
<1>10. CASE Expired(r)
  BY <1>10, ExpiredIsQuiet
<1>11. CASE Audit(r)
  BY <1>11, AuditIsQuiet
<1>12. CASE Emit(r)
  BY <1>12, EmitIsQuiet
<1>13. CASE Notify(r)
  BY <1>13, NotifyIsQuiet
<1>14. CASE Timeout(r)
  BY <1>14, TimeoutIsQuiet
<1>15. CASE Die(r)
  BY <1>15, DieIsQuiet
<1> QED
  BY <1>1, <1>2, <1>3, <1>4, <1>5, <1>6, <1>7, <1>8, <1>9, <1>10, <1>11, <1>12, <1>13,
     <1>14, <1>15 DEF Continue

LEMMA NextKeepsInv ==
  ASSUME IssuesAssumption, IInv, [Next]_vars
  PROVE  IInv'
<1>1. CASE Next
  BY <1>1, StepIsQuietOrCommits, QuietKeepsInv, CommitKeepsInv
<1>2. CASE UNCHANGED vars
  BY <1>2 DEF vars, store, outside, IInv, Domains, StoreOK, IdsKnown, OneCreate, OneWriter,
              RequestOK, HasWritten, HoldsProject, WriteOK, CallOK
<1> QED
  BY <1>1, <1>2

\* The row locks work: of the transactions that are open, one at most has drawn
\* a number, one at most holds a version of any one row, and each version still
\* agrees with the stored row wherever its statement set nothing.
THEOREM LocksHold == Spec => []IInv
<1>1. Init => IInv
  BY InitIInv, IssuesAssumption
<1>2. IInv /\ [Next]_vars => IInv'
  BY NextKeepsInv, IssuesAssumption
<1> QED
  BY <1>1, <1>2, PTL DEF Spec

\* No two issues of a project ever have the same number, and the number a create
\* has drawn stays free until it commits (IssuesService.create, Project.issueCounter).
THEOREM FreshNumbers == Spec => []NumbersAreFresh
<1>1. IInv => NumbersAreFresh
  BY DEF IInv, StoreOK, RequestOK, NumbersAreFresh
<1> QED
  BY <1>1, LocksHold, PTL

\* A commit changes no column its own statement has not set, however long ago
\* its request read the row: the updates of IssuesService lose no update.
THEOREM NoLostUpdate == Spec => OnlyWrittenColumnsChange
<1> DEFINE Step == \A i \in DOMAIN issue \cap DOMAIN issue' : \A c \in Columns :
                     issue'[i][c] # issue[i][c] =>
                       \E r \in Requests : /\ tx[r] = "open" /\ tx'[r] = "committed"
                                           /\ call[r].id = i /\ c \in DOMAIN call[r].data
<1>1. IInv /\ [Next]_vars => [Step]_vars
  <2> SUFFICES ASSUME IInv, Next, NEW i \in DOMAIN issue \cap DOMAIN issue', NEW c \in Columns,
                      issue'[i][c] # issue[i][c]
               PROVE  \E r \in Requests : /\ tx[r] = "open" /\ tx'[r] = "committed"
                                          /\ call[r].id = i /\ c \in DOMAIN call[r].data
    OBVIOUS
  <2>1. PICK r \in Requests : Commit(r)
    BY StepIsQuietOrCommits DEF Quiet, store
  <2>2. /\ tx[r] = "open" /\ pc[r] = "commit" /\ tx' = [tx EXCEPT ![r] = "committed"]
        /\ issue' = IF call[r].op = "remove" THEN Drop(issue, call[r].id)
                                             ELSE Put(issue, call[r].id, pending[r])
    BY <2>1 DEF Commit
  <2>3. Domains /\ CallOK(r) /\ WriteOK(r)
    BY <2>2 DEF IInv, RequestOK, HasWritten, Late
  <2>4. tx'[r] = "committed"
    BY <2>2, <2>3 DEF Domains
  <2>5. call[r].id = i /\ call[r].op # "remove" /\ issue'[i] = pending[r]
    BY <2>2 DEF Put, Drop
  <2>6. c \in DOMAIN call[r].data
    BY <2>3, <2>5 DEF CallOK, WriteOK
  <2> QED
    BY <2>2, <2>4, <2>5, <2>6
<1> QED
  BY <1>1, LocksHold, PTL DEF Spec, OnlyWrittenColumnsChange

-----------------------------------------------------------------------------
(* What boards show.                                                       *)

IsRow(v) == v = [c \in Columns |-> v[c]]

\* The version a request holds is what its statement makes of the stored row.
VersionOK(r) ==
  HasWritten(r) =>
    /\ call[r].op = "create" => IsRow(pending[r])
    /\ call[r].op \in {"update", "move"} => pending[r] = Set(call[r].data, issue[call[r].id])

\* An event goes out after the write and before the commit.
AnnouncedOK(r) ==
  /\ r \in announced => /\ pc[r] \in {"notify", "commit", "done"}
                        /\ tx[r] \in {"open", "committed", "aborted"}
  /\ tx[r] = "open" /\ pc[r] \in {"notify", "commit"} => r \in announced
  /\ pc[r] \notin {"new", "done"} => tx[r] \in {"open", "aborted"}

\* The board shows an issue as it is stored; as the open transaction r will have it.
ShowsStored(i) == /\ i \in DOMAIN view <=> i \in DOMAIN issue
                  /\ i \in DOMAIN view => view[i] = issue[i]
ShowsPending(i, r) == IF call[r].op = "remove" THEN i \notin DOMAIN view
                      ELSE i \in DOMAIN view /\ view[i] = pending[r]

\* What has been announced of an issue is all committed and shown, or one change
\* that is not committed yet is shown, or one was rolled back.
InStep(i) ==
  \/ (\A r \in announced : call[r].id = i => tx[r] = "committed") /\ ShowsStored(i)
  \/ \E r \in announced : call[r].id = i /\ tx[r] = "open" /\ ShowsPending(i, r)
  \/ \E r \in announced : call[r].id = i /\ tx[r] = "aborted"

SyncInv ==
  /\ announced \subseteq Requests
  /\ \A i \in DOMAIN issue : IsRow(issue[i])
  /\ \A r \in Requests : VersionOK(r) /\ AnnouncedOK(r)
  /\ \A i \in Issues : InStep(i)

\* A quiet step that emits nothing, and takes back nothing but a transaction.
Silent(r) ==
  /\ Quiet(r) /\ UNCHANGED <<announced, view>>
  /\ VersionOK(r)' /\ AnnouncedOK(r)'
  /\ r \in announced => /\ tx'[r] \in {tx[r], "aborted"} /\ pending'[r] = pending[r]
                        /\ call'[r].id = call[r].id /\ call'[r].op = call[r].op

LEMMA SilentKeepsSync ==
  ASSUME SyncInv, NEW r \in Requests, Silent(r)
  PROVE  SyncInv'
<1>1. /\ issue' = issue /\ announced' = announced /\ view' = view
      /\ \A q \in Requests \ {r} : Same(q)
  BY DEF Silent, Quiet, store
<1>2. \A q \in Requests \ {r} : VersionOK(q)' /\ AnnouncedOK(q)'
  BY <1>1 DEF SyncInv, Same, VersionOK, AnnouncedOK, HasWritten
<1>3. \A q \in announced : /\ tx'[q] \in {tx[q], "aborted"} /\ pending'[q] = pending[q]
                           /\ call'[q].id = call[q].id /\ call'[q].op = call[q].op
  BY <1>1 DEF Silent, Same, SyncInv
<1>4. ASSUME NEW i \in Issues
      PROVE  InStep(i)'
  <2>1. InStep(i)
    BY DEF SyncInv
  <2>2. ShowsStored(i)' <=> ShowsStored(i)
    BY <1>1 DEF ShowsStored
  <2>3. \A q \in announced : ShowsPending(i, q)' <=> ShowsPending(i, q)
    BY <1>1, <1>3 DEF ShowsPending
  <2> QED
    BY <1>1, <1>3, <2>1, <2>2, <2>3 DEF InStep
<1> QED
  BY <1>1, <1>2, <1>4 DEF SyncInv, Silent

\* A request that has announced nothing, and does not reach its end by this step.
LEMMA BeforeItsEvent ==
  ASSUME SyncInv, NEW r \in Requests, Quiet(r), UNCHANGED <<announced, view>>,
         pc[r] \notin {"notify", "commit", "done"},
         pc'[r] \notin {"notify", "commit"}, tx'[r] \in {"open", "aborted"}, VersionOK(r)'
  PROVE  Silent(r)
BY DEF SyncInv, AnnouncedOK, Silent

\* A request that goes on with the version it has, or gives it up.
LEMMA AfterItsWrite ==
  ASSUME SyncInv, NEW r \in Requests, Quiet(r), UNCHANGED <<announced, view>>,
         tx'[r] \in {tx[r], "aborted"}, pending'[r] = pending[r],
         call'[r].id = call[r].id, call'[r].op = call[r].op, call'[r].data = call[r].data,
         HasWritten(r)' => HasWritten(r),
         \/ pc'[r] \in {pc[r], "done"}
         \/ pc[r] = "notify" /\ pc'[r] \in {"notify", "commit"}
  PROVE  Silent(r)
<1>1. VersionOK(r)'
  BY DEF SyncInv, VersionOK, Quiet, store
<1>2. AnnouncedOK(r)'
  BY DEF SyncInv, AnnouncedOK
<1> QED
  BY <1>1, <1>2 DEF Silent

LEMMA OpenIsSilent ==
  ASSUME SyncInv, NEW r \in Requests, NEW label \in {"place", "above", "write"}, NEW c,
         Open(r, label, c), Quiet(r)
  PROVE  Silent(r)
<1>1. /\ pc[r] = "new" /\ pc' = [pc EXCEPT ![r] = label] /\ tx' = [tx EXCEPT ![r] = "open"]
      /\ UNCHANGED <<announced, view>>
  BY DEF Open, outside
<1>2. pc'[r] \in {"place", "above", "write"} /\ tx'[r] = "open"
  BY <1>1 DEF Quiet, Domains
<1>3. VersionOK(r)'
  BY <1>2 DEF VersionOK, HasWritten, Late
<1> QED
  BY <1>1, <1>2, <1>3, BeforeItsEvent

LEMMA ThrowIsSilent ==
  ASSUME SyncInv, NEW r \in Requests, Quiet(r), Throw(r),
         UNCHANGED <<call, pending, announced, view>>
  PROVE  Silent(r)
<1>1. tx'[r] \in {tx[r], "aborted"} /\ pc'[r] \in {pc[r], "done"}
  BY DEF Throw
<1>2. HasWritten(r)' => HasWritten(r)
  BY DEF Throw, HasWritten, Late
<1> QED
  BY <1>1, <1>2, AfterItsWrite

\* The three steps that change the version a request holds or what it is to write.
LEMMA MoveRankIsSilent ==
  ASSUME SyncInv, NEW r \in Requests, Quiet(r), MoveRank(r)
  PROVE  Silent(r)
<1>1. /\ pc[r] = "below" /\ tx[r] = "open" /\ UNCHANGED <<announced, view>>
      /\ pc' = [pc EXCEPT ![r] = "write"] \/ pc' = [pc EXCEPT ![r] = "done"]
      /\ tx' = tx \/ tx' = [tx EXCEPT ![r] = "aborted"]
  BY DEF MoveRank, Throw, Goto, outside
<1>2. pc'[r] \in {"write", "done"} /\ tx'[r] \in {"open", "aborted"}
  BY <1>1 DEF Quiet, Domains
<1>3. VersionOK(r)'
  BY <1>2 DEF VersionOK, HasWritten, Late
<1> QED
  BY <1>1, <1>2, <1>3, BeforeItsEvent

LEMMA CreatePlaceIsSilent ==
  ASSUME SyncInv, IInv, NEW r \in Requests, NEW i \in Issues, Quiet(r), CreatePlace(r, i)
  PROVE  Silent(r)
<1> DEFINE last == LastRank(call[r].data.status)
           rank == IF last = None THEN FirstRank ELSE RankBetween(last, None)
           row == [call[r].data EXCEPT !.rank = rank]
<1>1. /\ pc[r] = "place" /\ tx[r] = "open" /\ tx' = tx /\ UNCHANGED <<announced, view>>
      /\ call' = [call EXCEPT ![r] = [[call[r] EXCEPT !.id = i] EXCEPT !.data = row]]
      /\ pending' = [pending EXCEPT ![r] = row]
      /\ pc' = [pc EXCEPT ![r] = "audit"]
  <2> HIDE DEF rank
  <2> QED
    BY DEF CreatePlace, Goto, outside, rank
<1>2. Domains /\ CallOK(r) /\ call[r].op = "create" /\ DOMAIN call[r].data = Columns
  BY <1>1 DEF IInv, RequestOK, CallOK
<1> HIDE DEF last, rank
<1>3. IsRow(row)
  BY <1>2 DEF IsRow, Columns
<1> HIDE DEF row
<1>4. pc'[r] = "audit" /\ pending'[r] = row
  BY <1>1, <1>2 DEF Domains
<1>5. call'[r] = [[call[r] EXCEPT !.id = i] EXCEPT !.data = row]
  BY <1>1, <1>2 DEF Domains
<1>6. call'[r].op = "create"
  BY <1>2, <1>5 DEF CallOK, Fields
<1>7. VersionOK(r)'
  BY <1>3, <1>4, <1>6 DEF VersionOK, IsRow
<1> QED
  BY <1>1, <1>4, <1>7, BeforeItsEvent

LEMMA WriteIsSilent ==
  ASSUME SyncInv, IInv, NEW r \in Requests, Quiet(r), Write(r)
  PROVE  Silent(r)
<1>1. /\ pc[r] = "write" /\ tx[r] = "open" /\ call' = call /\ issue' = issue
      /\ UNCHANGED <<announced, view>> /\ Domains /\ CallOK(r)
  BY DEF Write, store, outside, IInv, RequestOK
<1>2. CASE call[r].id \notin DOMAIN issue
  <2>1. Throw(r) /\ pending' = pending
    BY <1>2 DEF Write
  <2> QED
    BY <1>1, <2>1, ThrowIsSilent
<1>3. CASE call[r].id \in DOMAIN issue
  <2>1. pending'[r] = Written(r) /\ pc'[r] = "audit" /\ tx' = tx
    BY <1>1, <1>3 DEF Write, Goto, Domains
  <2>2. VersionOK(r)'
    BY <1>1, <2>1 DEF VersionOK, Written, CallOK
  <2> QED
    BY <1>1, <2>1, <2>2, BeforeItsEvent
<1> QED
  BY <1>2, <1>3

LEMMA NotifyIsSilent ==
  ASSUME SyncInv, IInv, NEW r \in Requests, Quiet(r), Notify(r)
  PROVE  Silent(r)
<1>1. PICK n \in call[r].todo :
        /\ call' = [call EXCEPT ![r].todo = @ \ {n}]
        /\ Goto(r, IF call[r].todo = {n} THEN "commit" ELSE "notify")
  BY DEF Notify
<1> DEFINE next == IF call[r].todo = {n} THEN "commit" ELSE "notify"
           todo == call[r].todo \ {n}
<1>2. /\ pc[r] = "notify" /\ pc' = [pc EXCEPT ![r] = next] /\ next \in {"commit", "notify"}
      /\ tx' = tx /\ pending' = pending /\ UNCHANGED <<announced, view>>
      /\ call' = [call EXCEPT ![r] = [call[r] EXCEPT !.todo = todo]]
  BY <1>1 DEF Notify, Goto
<1> HIDE DEF next, todo
<1>3. Domains /\ CallOK(r)
  BY <1>2 DEF IInv, RequestOK
<1>4. pc'[r] = next /\ call'[r] = [call[r] EXCEPT !.todo = todo]
  BY <1>2, <1>3 DEF Domains
<1>5. call'[r].id = call[r].id /\ call'[r].op = call[r].op /\ call'[r].data = call[r].data
  BY <1>3, <1>4 DEF CallOK, Fields
<1>6. HasWritten(r)' => HasWritten(r)
  BY <1>2 DEF HasWritten, Late
<1> QED
  BY <1>2, <1>4, <1>5, <1>6, AfterItsWrite

LEMMA MoveAboveIsSilent ==
  ASSUME SyncInv, NEW r \in Requests, Quiet(r), MoveAbove(r)
  PROVE  Silent(r)
<1>1. /\ pc[r] = "above" /\ tx[r] = "open" /\ tx' = tx
      /\ pc' = [pc EXCEPT ![r] = "below"] /\ UNCHANGED <<announced, view>>
  BY DEF MoveAbove, Goto, outside
<1>2. pc'[r] = "below"
  BY <1>1 DEF Quiet, Domains
<1>3. VersionOK(r)'
  BY <1>2 DEF VersionOK, HasWritten, Late
<1> QED
  BY <1>1, <1>2, <1>3, BeforeItsEvent

LEMMA AuditIsSilent ==
  ASSUME SyncInv, NEW r \in Requests, Quiet(r), Audit(r)
  PROVE  Silent(r)
<1>1. /\ pc[r] = "audit" /\ pc' = [pc EXCEPT ![r] = "emit"] /\ UNCHANGED <<announced, view>>
      /\ tx' = tx /\ call' = call /\ pending' = pending /\ issue' = issue
  BY DEF Audit, Goto, store
<1>2. pc'[r] = "emit"
  BY <1>1 DEF Quiet, Domains
<1>3. VersionOK(r)'
  BY <1>1 DEF SyncInv, VersionOK, HasWritten, Late
<1>4. tx[r] \in {"open", "aborted"}
  BY <1>1 DEF SyncInv, AnnouncedOK
<1> QED
  BY <1>1, <1>2, <1>3, <1>4, BeforeItsEvent

\* Every step but an event and a commit is silent.
LEMMA StepIsSilentOrShows ==
  ASSUME IInv, SyncInv, Next
  PROVE  \E r \in Requests : Silent(r) \/ (Quiet(r) /\ Emit(r)) \/ Commit(r)
<1>1. PICK r \in Requests :
        \/ \E u \in Actors, s \in Statuses, a \in Users \cup {None} : CreateCount(r, u, s, a)
        \/ \E u \in Actors, i \in Issues, d \in Inputs : UpdateRead(r, u, i, d)
        \/ \E u \in Actors, i \in Issues, s \in Statuses : MoveRead(r, u, i, s)
        \/ \E u \in Actors, i \in Issues : RemoveRead(r, u, i)
        \/ Continue(r) \/ Timeout(r) \/ Die(r)
  BY DEF Next
<1>2. ASSUME NEW u \in Actors, NEW s \in Statuses, NEW a \in Users \cup {None},
             CreateCount(r, u, s, a)
      PROVE  Silent(r)
  <2>1. \E c : Open(r, "place", c)
    BY <1>2 DEF CreateCount
  <2> QED
    BY <1>2, <2>1, CreateCountIsQuiet, OpenIsSilent
<1>3. ASSUME NEW u \in Actors, NEW i \in Issues, NEW d \in Inputs, UpdateRead(r, u, i, d)
      PROVE  Silent(r)
  <2>1. \E c : Open(r, "write", c)
    BY <1>3 DEF UpdateRead
  <2> QED
    BY <1>3, <2>1, UpdateReadIsQuiet, OpenIsSilent
<1>4. ASSUME NEW u \in Actors, NEW i \in Issues, NEW s \in Statuses, MoveRead(r, u, i, s)
      PROVE  Silent(r)
  <2>1. \E c : Open(r, "above", c)
    BY <1>4 DEF MoveRead
  <2> QED
    BY <1>4, <2>1, MoveReadIsQuiet, OpenIsSilent
<1>5. ASSUME NEW u \in Actors, NEW i \in Issues, RemoveRead(r, u, i)
      PROVE  Silent(r)
  <2>1. \E c : Open(r, "write", c)
    BY <1>5 DEF RemoveRead
  <2> QED
    BY <1>5, <2>1, RemoveReadIsQuiet, OpenIsSilent
<1>6. ASSUME NEW i \in Issues, CreatePlace(r, i)
      PROVE  Silent(r)
  BY <1>6, CreatePlaceIsQuiet, CreatePlaceIsSilent
<1>7. CASE MoveAbove(r)
  BY <1>7, MoveAboveIsQuiet, MoveAboveIsSilent
<1>8. CASE MoveRank(r)
  BY <1>8, MoveRankIsQuiet, MoveRankIsSilent
<1>9. CASE Write(r)
  BY <1>9, WriteIsQuiet, WriteIsSilent
<1>10. CASE Audit(r)
  BY <1>10, AuditIsQuiet, AuditIsSilent
<1>11. CASE Notify(r)
  BY <1>11, NotifyIsQuiet, NotifyIsSilent
<1>12. CASE Expired(r)
  <2>1. /\ pc' = [pc EXCEPT ![r] = "done"] /\ tx' = tx /\ call' = call /\ pending' = pending
        /\ tx[r] = "aborted" /\ UNCHANGED <<announced, view>> /\ Quiet(r)
    BY <1>12, ExpiredIsQuiet DEF Expired, Goto, outside
  <2>2. pc'[r] = "done" /\ ~HasWritten(r)'
    BY <2>1 DEF Quiet, Domains, HasWritten
  <2> QED
    BY <2>1, <2>2, AfterItsWrite
<1>13. CASE Timeout(r)
  <2>1. /\ pc' = pc /\ tx' = [tx EXCEPT ![r] = "aborted"] /\ call' = call /\ pending' = pending
        /\ UNCHANGED <<announced, view>> /\ Quiet(r)
    BY <1>13, TimeoutIsQuiet DEF Timeout, outside
  <2>2. tx'[r] = "aborted" /\ ~HasWritten(r)'
    BY <2>1 DEF Quiet, Domains, HasWritten
  <2> QED
    BY <2>1, <2>2, AfterItsWrite
<1>14. CASE Die(r)
  BY <1>14, DieIsQuiet, ThrowIsSilent DEF Die, outside
<1> QED
  BY <1>1, <1>2, <1>3, <1>4, <1>5, <1>6, <1>7, <1>8, <1>9, <1>10, <1>11, <1>12, <1>13,
     <1>14, EmitIsQuiet DEF Continue

\* The event of an open transaction shows the version that it will commit, on a
\* board that shows the issue as it is stored.
LEMMA EventShowsVersion ==
  ASSUME IInv, SyncInv, NEW r \in Requests, tx[r] = "open", pc[r] = "emit",
         ShowsStored(call[r].id)
  PROVE  IF call[r].op = "remove" THEN call[r].id \notin DOMAIN Applied(r)
         ELSE call[r].id \in DOMAIN Applied(r) /\ Applied(r)[call[r].id] = pending[r]
<1> DEFINE i == call[r].id
<1>1. HasWritten(r) /\ CallOK(r) /\ WriteOK(r) /\ VersionOK(r)
  BY DEF HasWritten, Late, IInv, RequestOK, SyncInv
<1>2. CASE call[r].op = "create"
  <2>1. i \notin DOMAIN view /\ Applied(r) = Put(view, i, pending[r])
    BY <1>1, <1>2 DEF ShowsStored, WriteOK, Applied, Payload
  <2> QED
    BY <1>2, <2>1 DEF Put
<1>3. CASE call[r].op = "remove"
  BY <1>3 DEF Applied, Drop
<1>4. CASE call[r].op = "update"
  <2>1. /\ i \in DOMAIN view /\ pending[r] = Set(call[r].data, issue[i])
        /\ Applied(r) = [view EXCEPT ![i] = Set(pending[r], view[i])]
    BY <1>1, <1>4 DEF ShowsStored, WriteOK, VersionOK, Applied, Payload
  <2>2. Set(pending[r], view[i]) = pending[r]
    BY <2>1 DEF Set
  <2> QED
    BY <1>4, <2>1, <2>2
<1>5. CASE call[r].op = "move"
  <2>1. /\ i \in DOMAIN view /\ view[i] = issue[i] /\ pending[r] = Set(call[r].data, issue[i])
        /\ Applied(r) = [view EXCEPT ![i] = Set(call[r].data, view[i])]
    BY <1>1, <1>5 DEF ShowsStored, WriteOK, VersionOK, Applied, Payload
  <2> QED
    BY <1>5, <2>1
<1> QED
  BY <1>1, <1>2, <1>3, <1>4, <1>5 DEF CallOK

\* An event changes its own issue on the board, and no other.
LEMMA EventShowsNoOther ==
  ASSUME NEW r \in Requests, NEW i, i # call[r].id
  PROVE  /\ i \in DOMAIN Applied(r) <=> i \in DOMAIN view
         /\ i \in DOMAIN view => Applied(r)[i] = view[i]
<1>1. \/ Applied(r) = view
      \/ Applied(r) = Put(view, call[r].id, Payload(r))
      \/ Applied(r) = Drop(view, call[r].id)
      \/ Applied(r) = [view EXCEPT ![call[r].id] = Set(Payload(r), view[call[r].id])]
  BY DEF Applied
<1> QED
  BY <1>1 DEF Put, Drop

\* What is announced and not committed is still held.
LEMMA AnnouncedHasWritten ==
  ASSUME IInv, SyncInv, NEW q \in announced, tx[q] = "open"
  PROVE  q \in Requests /\ HasWritten(q)
<1>1. q \in Requests /\ AnnouncedOK(q)
  BY DEF SyncInv
<1>2. pc[q] \in {"notify", "commit", "done"} /\ pc[q] # "done"
  BY <1>1 DEF AnnouncedOK, IInv, RequestOK
<1> QED
  BY <1>1, <1>2 DEF HasWritten, Late

LEMMA EmitKeepsSync ==
  ASSUME IInv, SyncInv, NEW r \in Requests, Quiet(r), Emit(r)
  PROVE  SyncInv'
<1> DEFINE next == IF Recipients(r) = {} THEN "commit" ELSE "notify"
           todo == Recipients(r)
<1>1. /\ pc[r] = "emit" /\ pc' = [pc EXCEPT ![r] = next] /\ next \in {"commit", "notify"}
      /\ issue' = issue /\ tx' = tx /\ pending' = pending
      /\ view' = Applied(r) /\ announced' = announced \cup {r}
      /\ call' = [call EXCEPT ![r] = [call[r] EXCEPT !.todo = todo]]
  BY DEF Emit, Goto, store
<1> HIDE DEF next, todo
<1>2. Domains /\ CallOK(r)
  BY <1>1 DEF IInv, RequestOK
<1>3. pc'[r] = next /\ \A q \in Requests \ {r} : pc'[q] = pc[q] /\ call'[q] = call[q]
  BY <1>1, <1>2 DEF Domains
<1>4. call'[r] = [call[r] EXCEPT !.todo = todo]
  BY <1>1, <1>2 DEF Domains
<1>5. \A q \in Requests : /\ call'[q].id = call[q].id /\ call'[q].op = call[q].op
                          /\ call'[q].data = call[q].data
  BY <1>2, <1>3, <1>4 DEF CallOK, Fields
<1>6. \A q \in Requests : VersionOK(q)' /\ AnnouncedOK(q)'
  <2>1. \A q \in Requests : HasWritten(q)' => HasWritten(q)
    BY <1>1, <1>3 DEF HasWritten, Late
  <2>2. \A q \in Requests : VersionOK(q)'
    BY <1>1, <1>5, <2>1 DEF SyncInv, VersionOK
  <2>3. \A q \in Requests : AnnouncedOK(q)'
    BY <1>1, <1>3 DEF SyncInv, AnnouncedOK
  <2> QED
    BY <2>2, <2>3
<1>7. \A q \in announced : call[q].id = call[r].id /\ tx[q] = "open" => tx[r] # "open"
  <2>1. tx[r] = "open" => HasWritten(r)
    BY <1>1 DEF HasWritten, Late
  <2>2. r \notin announced
    BY <1>1 DEF SyncInv, AnnouncedOK
  <2> QED
    BY <2>1, <2>2, AnnouncedHasWritten DEF IInv, OneWriter
<1>8. ASSUME NEW i \in Issues
      PROVE  InStep(i)'
  <2>1. InStep(i)
    BY DEF SyncInv
  <2>2. CASE i # call[r].id
    <3>1. /\ i \in DOMAIN view' <=> i \in DOMAIN view
          /\ i \in DOMAIN view => view'[i] = view[i]
      BY <1>1, <2>2, EventShowsNoOther
    <3>2. ShowsStored(i)' <=> ShowsStored(i)
      BY <1>1, <3>1 DEF ShowsStored
    <3>3. \A q \in announced : ShowsPending(i, q) => ShowsPending(i, q)'
      BY <1>1, <1>5, <3>1 DEF ShowsPending, SyncInv
    <3> QED
      BY <1>1, <1>5, <2>1, <2>2, <3>2, <3>3 DEF InStep, SyncInv
  <2>3. CASE i = call[r].id /\ tx[r] = "aborted"
    BY <1>1, <1>5, <2>3 DEF InStep
  <2>4. CASE i = call[r].id /\ tx[r] = "open" /\ ShowsStored(i)
    <3>1. ShowsPending(i, r)'
      BY <1>1, <1>5, <2>4, EventShowsVersion DEF ShowsPending
    <3> QED
      BY <1>1, <1>5, <2>4, <3>1 DEF InStep
  <2>5. CASE i = call[r].id /\ \E q \in announced : call[q].id = i /\ tx[q] = "aborted"
    BY <1>1, <1>5, <2>5 DEF InStep, SyncInv
  <2> QED
    BY <1>1, <1>7, <2>1, <2>2, <2>3, <2>4, <2>5 DEF InStep, SyncInv, AnnouncedOK
<1> QED
  BY <1>1, <1>6, <1>8 DEF SyncInv

LEMMA CommitKeepsSync ==
  ASSUME IInv, SyncInv, NEW r \in Requests, Commit(r)
  PROVE  SyncInv'
<1> DEFINE n == call[r].id
<1>1. /\ tx[r] = "open" /\ pc[r] = "commit"
      /\ issue' = IF call[r].op = "remove" THEN Drop(issue, n) ELSE Put(issue, n, pending[r])
      /\ tx' = [tx EXCEPT ![r] = "committed"] /\ pc' = [pc EXCEPT ![r] = "done"]
      /\ call' = call /\ pending' = pending /\ announced' = announced /\ view' = view
  BY DEF Commit, Goto, outside
<1>2. Domains /\ CallOK(r) /\ HasWritten(r) /\ VersionOK(r) /\ r \in announced
  BY <1>1 DEF IInv, RequestOK, HasWritten, Late, SyncInv, AnnouncedOK
<1>3. /\ pc'[r] = "done" /\ tx'[r] = "committed"
      /\ \A q \in Requests \ {r} : pc'[q] = pc[q] /\ tx'[q] = tx[q]
  BY <1>1, <1>2 DEF Domains
<1>4. /\ \A i : i # n => /\ i \in DOMAIN issue' <=> i \in DOMAIN issue
                         /\ i \in DOMAIN issue => issue'[i] = issue[i]
      /\ call[r].op = "remove" => n \notin DOMAIN issue'
      /\ call[r].op # "remove" => n \in DOMAIN issue' /\ issue'[n] = pending[r]
  BY <1>1 DEF Put, Drop
<1>5. call[r].op # "remove" => IsRow(pending[r])
  <2>1. \A data, row : IsRow(Set(data, row))
    BY DEF IsRow, Set
  <2> QED
    BY <1>2, <2>1 DEF VersionOK, CallOK
<1>6. \A i \in DOMAIN issue' : IsRow(issue'[i])
  BY <1>4, <1>5 DEF SyncInv
<1>7. \A q \in Requests : VersionOK(q)' /\ AnnouncedOK(q)'
  <2> SUFFICES ASSUME NEW q \in Requests
               PROVE  VersionOK(q)' /\ AnnouncedOK(q)'
    OBVIOUS
  <2>1. AnnouncedOK(q)'
    BY <1>1, <1>3 DEF SyncInv, AnnouncedOK
  <2>2. CASE q = r
    BY <1>3, <2>1, <2>2 DEF VersionOK, HasWritten
  <2>3. CASE q # r
    <3>1. HasWritten(q)' <=> HasWritten(q)
      BY <1>3, <2>3 DEF HasWritten
    <3>2. HasWritten(q) => call[q].id # n /\ WriteOK(q) /\ VersionOK(q)
      BY <1>2, <2>3 DEF IInv, OneWriter, RequestOK, SyncInv
    <3>3. VersionOK(q)'
      BY <1>1, <1>4, <3>1, <3>2 DEF VersionOK, WriteOK
    <3> QED
      BY <2>1, <3>3
  <2> QED
    BY <2>2, <2>3
<1>8. \A q \in announced : call[q].id = n /\ tx[q] = "open" => q = r
  BY <1>2, AnnouncedHasWritten DEF IInv, OneWriter
<1>9. ASSUME NEW i \in Issues
      PROVE  InStep(i)'
  <2>1. InStep(i)
    BY DEF SyncInv
  <2>2. \A q \in announced : ShowsPending(i, q)' <=> ShowsPending(i, q)
    BY <1>1 DEF ShowsPending
  <2>3. CASE i # n
    <3>1. ShowsStored(i)' <=> ShowsStored(i)
      BY <1>1, <1>4, <2>3 DEF ShowsStored
    <3> QED
      BY <1>1, <1>3, <2>1, <2>2, <2>3, <3>1 DEF InStep, SyncInv
  <2>4. CASE i = n /\ \E q \in announced : call[q].id = i /\ tx[q] = "aborted"
    BY <1>1, <1>3, <2>4 DEF InStep, SyncInv
  <2>5. CASE i = n /\ ~\E q \in announced : call[q].id = i /\ tx[q] = "aborted"
    <3>1. ShowsPending(n, r)
      BY <1>1, <1>2, <1>8, <2>1, <2>5 DEF InStep
    <3>2. ShowsStored(i)'
      BY <1>1, <1>4, <2>5, <3>1 DEF ShowsPending, ShowsStored
    <3>3. \A q \in announced : call[q].id = i => tx'[q] = "committed"
      BY <1>3, <1>8, <2>5 DEF SyncInv, AnnouncedOK
    <3> QED
      BY <1>1, <3>2, <3>3 DEF InStep
  <2> QED
    BY <2>3, <2>4, <2>5
<1> QED
  BY <1>1, <1>6, <1>7, <1>9 DEF SyncInv

LEMMA InitSync ==
  ASSUME Init
  PROVE  SyncInv
<1>1. \A k : IsRow(SeedRow(k))
  BY DEF SeedRow, IsRow, Columns
<1>2. \A i \in DOMAIN issue : IsRow(issue[i])
  BY <1>1 DEF Init, SeedTable
<1>3. \A r \in Requests : VersionOK(r) /\ AnnouncedOK(r)
  BY DEF Init, VersionOK, AnnouncedOK, HasWritten
<1>4. \A i \in Issues : InStep(i)
  BY DEF Init, InStep, ShowsStored
<1> QED
  BY <1>2, <1>3, <1>4 DEF SyncInv, Init

LEMMA NextKeepsSync ==
  ASSUME IInv, SyncInv, [Next]_vars
  PROVE  SyncInv'
<1>1. CASE Next
  BY <1>1, StepIsSilentOrShows, SilentKeepsSync, EmitKeepsSync, CommitKeepsSync
<1>2. CASE UNCHANGED vars
  BY <1>2 DEF vars, store, outside, SyncInv, IsRow, VersionOK, HasWritten, AnnouncedOK, InStep,
              ShowsStored, ShowsPending
<1> QED
  BY <1>1, <1>2

\* A connected board shows every issue as it is stored, except while a change of
\* it is announced and not committed, or was announced and rolled back: the row
\* lock, held from the write to the commit, makes the events of one issue go out in the
\* order of its commits (IssuesService, RealtimeGateway, use-board-realtime.ts).
THEOREM BoardsFollow == Spec => []BoardInSync
<1>1. Init => IInv /\ SyncInv
  BY InitIInv, IssuesAssumption, InitSync
<1>2. IInv /\ SyncInv /\ [Next]_vars => (IInv /\ SyncInv)'
  BY NextKeepsInv, NextKeepsSync, IssuesAssumption
<1>3. SyncInv => BoardInSync
  <2> SUFFICES ASSUME SyncInv, NEW i \in Issues,
                      \A r \in announced : call[r].id = i => tx[r] = "committed"
               PROVE  ShowsStored(i)
    BY DEF BoardInSync, ShowsStored
  <2> QED
    BY DEF SyncInv, InStep
<1> QED
  BY <1>1, <1>2, <1>3, PTL DEF Spec

-----------------------------------------------------------------------------
(* Types.  Every rank is one that rankBetween made.                        *)

\* Seeded ranks up to the n-th: a start of the recursive definition.
Start(n, f) ==
  /\ f \in [0 .. n -> Ranks]
  /\ \A k \in 0 .. n : f[k] = IF k <= 1 THEN FirstRank ELSE RankBetween(f[k - 1], None)

LEMMA NextRankIsARank ==
  ASSUME NEW rank \in Ranks
  PROVE  RankBetween(rank, None) \in Ranks
BY RankBetweenIsARank DEF Ranks

LEMMA EveryStartExists ==
  ASSUME NEW n \in Nat
  PROVE  \E f : Start(n, f)
<1> DEFINE S == {m \in Nat : ~\E f : Start(m, f)}
<1> SUFFICES ASSUME S # {}
             PROVE  FALSE
  OBVIOUS
<1>1. PICK m \in S : \A l \in S : m <= l
  BY Least
<1>2. m \in Nat /\ ~\E f : Start(m, f)
  BY <1>1
<1>3. m # 0
  <2> DEFINE f == [k \in 0 .. 0 |-> FirstRank]
  <2>1. Start(0, f)
    BY FirstRankIsARank DEF Start
  <2> QED
    BY <1>2, <2>1
<1>4. m - 1 \in Nat /\ m - 1 \notin S
  BY <1>1, <1>2, <1>3
<1>5. PICK g : Start(m - 1, g)
  BY <1>4
<1> DEFINE f == [k \in 0 .. m |-> IF k <= m - 1 THEN g[k]
                                   ELSE IF m = 1 THEN FirstRank ELSE RankBetween(g[m - 1], None)]
<1>6. g[m - 1] \in Ranks
  BY <1>4, <1>5 DEF Start
<1>7. f \in [0 .. m -> Ranks]
  BY <1>2, <1>5, <1>6, FirstRankIsARank, NextRankIsARank DEF Start
<1>8. ASSUME NEW k \in 0 .. m
      PROVE  f[k] = IF k <= 1 THEN FirstRank ELSE RankBetween(f[k - 1], None)
  <2>1. CASE k <= m - 1
    <3>1. f[k] = g[k] /\ (k >= 1 => k - 1 \in 0 .. m /\ f[k - 1] = g[k - 1])
      BY <1>2, <2>1
    <3>2. g[k] = IF k <= 1 THEN FirstRank ELSE RankBetween(g[k - 1], None)
      BY <1>2, <1>5, <2>1 DEF Start
    <3> HIDE DEF f
    <3> QED
      BY <3>1, <3>2
  <2>2. CASE k = m
    <3>1. f[m] = IF m = 1 THEN FirstRank ELSE RankBetween(g[m - 1], None)
      BY <1>2
    <3>2. f[m - 1] = g[m - 1]
      BY <1>2, <1>4
    <3> HIDE DEF f
    <3> QED
      BY <1>2, <1>3, <2>2, <3>1, <3>2
  <2> QED
    BY <1>2, <2>1, <2>2
<1>9. Start(m, f)
  <2> HIDE DEF f
  <2> QED
    BY <1>7, <1>8 DEF Start
<1> QED
  BY <1>2, <1>9

LEMMA StartsAgree ==
  ASSUME NEW n \in Nat, NEW m \in Nat, NEW f, NEW g, Start(n, f), Start(m, g),
         NEW k \in Nat, k <= n, k <= m
  PROVE  f[k] = g[k]
<1> DEFINE S == {l \in Nat : l <= n /\ l <= m /\ f[l] # g[l]}
<1> SUFFICES ASSUME S # {}
             PROVE  FALSE
  OBVIOUS
<1>1. PICK l \in S : \A i \in S : l <= i
  BY Least
<1>2. /\ l \in Nat /\ l <= n /\ l <= m /\ f[l] # g[l]
      /\ l \in 0 .. n /\ l \in 0 .. m
  BY <1>1
<1>3. /\ f[l] = IF l <= 1 THEN FirstRank ELSE RankBetween(f[l - 1], None)
      /\ g[l] = IF l <= 1 THEN FirstRank ELSE RankBetween(g[l - 1], None)
  BY <1>2 DEF Start
<1>4. l > 1 /\ l - 1 \in Nat
  BY <1>2, <1>3
<1>5. f[l - 1] = g[l - 1]
  BY <1>1, <1>2, <1>4
<1> QED
  BY <1>2, <1>3, <1>4, <1>5

LEMMA SeedRankIsDefined ==
  SeedRank = [k \in Nat |-> IF k <= 1 THEN FirstRank ELSE RankBetween(SeedRank[k - 1], None)]
<1> DEFINE Body(h) == [k \in Nat |-> IF k <= 1 THEN FirstRank ELSE RankBetween(h[k - 1], None)]
           upTo(n) == CHOOSE f : Start(n, f)
           whole == [k \in Nat |-> upTo(k)[k]]
<1>1. \A n \in Nat : Start(n, upTo(n))
  BY EveryStartExists
<1> HIDE DEF upTo
<1>2. ASSUME NEW k \in Nat
      PROVE  whole[k] = IF k <= 1 THEN FirstRank ELSE RankBetween(whole[k - 1], None)
  <2>1. upTo(k)[k] = IF k <= 1 THEN FirstRank ELSE RankBetween(upTo(k)[k - 1], None)
    <3>1. Start(k, upTo(k)) /\ k \in 0 .. k
      BY <1>1
    <3> QED
      BY <3>1 DEF Start
  <2>2. k > 1 => upTo(k)[k - 1] = upTo(k - 1)[k - 1]
    <3> SUFFICES ASSUME k > 1
                 PROVE  upTo(k)[k - 1] = upTo(k - 1)[k - 1]
      OBVIOUS
    <3>1. k - 1 \in Nat /\ k - 1 <= k /\ k - 1 <= k - 1
      OBVIOUS
    <3>2. Start(k, upTo(k)) /\ Start(k - 1, upTo(k - 1))
      BY <1>1, <3>1
    <3> QED
      BY <3>1, <3>2, StartsAgree
  <2>3. whole[k] = upTo(k)[k] /\ (k > 1 => whole[k - 1] = upTo(k - 1)[k - 1])
    OBVIOUS
  <2> QED
    BY <2>1, <2>2, <2>3
<1>3. whole = Body(whole)
  BY <1>2
<1>4. \E h : h = Body(h)
  BY <1>3
<1>5. SeedRank = CHOOSE h : h = Body(h)
  BY DEF SeedRank
<1> QED
  BY <1>4, <1>5

LEMMA SeedRanksAreRanks ==
  ASSUME NEW k \in Nat
  PROVE  SeedRank[k] \in Ranks
<1> DEFINE S == {l \in Nat : SeedRank[l] \notin Ranks}
<1> SUFFICES ASSUME S # {}
             PROVE  FALSE
  OBVIOUS
<1>1. PICK l \in S : \A i \in S : l <= i
  BY Least
<1>2. l \in Nat /\ SeedRank[l] \notin Ranks
  BY <1>1
<1>3. SeedRank[l] = IF l <= 1 THEN FirstRank ELSE RankBetween(SeedRank[l - 1], None)
  BY <1>2, SeedRankIsDefined
<1>4. l > 1 => SeedRank[l - 1] \in Ranks
  BY <1>1, <1>2
<1> QED
  BY <1>2, <1>3, <1>4, FirstRankIsARank, NextRankIsARank

Labels == {"new", "place", "above", "below", "write", "audit", "emit", "notify", "commit", "done"}
Phases == {"none", "open", "committed", "aborted"}
Kinds == {"ISSUE_ASSIGNED", "ISSUE_STATUS_CHANGED"}

\* A row version whose rank can be a neighbour of a drop.
Version(row) == RowOK(row) /\ row.rank \in Ranks

\* What an UPDATE sets.
DataOK(data) ==
  /\ "status" \in DOMAIN data => data.status \in Statuses
  /\ "assignee" \in DOMAIN data => data.assignee \in Users \cup {None}
  /\ "rank" \in DOMAIN data => data.rank \in Ranks

\* The input of a request, what it has read, and the version it has made of it.
InputOK(r) ==
  /\ call[r].actor \in Users
  /\ call[r].op = "create" => /\ call[r].data.number \in Nat \ {0}
                              /\ call[r].data.status \in Statuses
                              /\ call[r].data.assignee \in Users \cup {None}
                              /\ call[r].data.reporter \in Users
  /\ call[r].op \in {"update", "move"} => DataOK(call[r].data)
  /\ call[r].op = "move" => "status" \in DOMAIN call[r].data
  /\ call[r].op = "update" => Version(call[r].before)
  /\ call[r].todo \subseteq Users \X Kinds

ReadOK(r) ==
  /\ pc[r] \in {"above", "below"} => call[r].op = "move"
  /\ pc[r] = "below" => call[r].floor \in Ranks \cup {None}
  /\ pc[r] \in Late => /\ call[r].id \in Issues
                       /\ call[r].op # "remove" => Version(pending[r])

Typed(r) ==
  /\ pc[r] \in Labels /\ tx[r] \in Phases
  /\ pending[r] = None \/ Version(pending[r])
  /\ pc[r] # "new" => InputOK(r) /\ ReadOK(r)

Stored == IsFiniteSet(DOMAIN issue) /\ \A i \in DOMAIN issue : Version(issue[i])
Shown == DOMAIN view \subseteq Issues /\ \A i \in DOMAIN view : Version(view[i])
Sent == /\ audited \subseteq Requests /\ announced \subseteq Requests
        /\ jobs \subseteq [from : Requests, to : Users, kind : Kinds]

TInv == Stored /\ Shown /\ Sent /\ \A r \in Requests : Typed(r)

LEMMA SetMakesAVersion ==
  ASSUME NEW data, NEW row, DataOK(data), DOMAIN data \subseteq Editable, Version(row)
  PROVE  Version(Set(data, row))
<1> DEFINE v == Set(data, row)
<1>1. /\ v.number = row.number /\ v.reporter = row.reporter
      /\ v.status = IF "status" \in DOMAIN data THEN data.status ELSE row.status
      /\ v.rank = IF "rank" \in DOMAIN data THEN data.rank ELSE row.rank
      /\ v.assignee = IF "assignee" \in DOMAIN data THEN data.assignee ELSE row.assignee
  BY DEF Set, Columns, Editable
<1> HIDE DEF v
<1>2. v.status \in Statuses /\ v.rank \in Ranks /\ v.assignee \in Users \cup {None}
  BY <1>1 DEF DataOK, Version, RowOK
<1>3. v.rank \in Seq(Digit)
  BY <1>2 DEF Ranks
<1>4. Version(v)
  BY <1>1, <1>2, <1>3 DEF Version, RowOK
<1> QED
  BY <1>4 DEF v

LEMMA TypedElsewhere ==
  ASSUME NEW q \in Requests, Same(q), Typed(q)
  PROVE  Typed(q)'
BY DEF Same, Typed, InputOK, ReadOK, DataOK, Version, RowOK

\* A step of one request that stores nothing and tells nobody.
LEMMA LocalKeepsTypes ==
  ASSUME TInv, NEW r \in Requests, \A q \in Requests \ {r} : Same(q), Typed(r)',
         UNCHANGED issue, Shown', Sent'
  PROVE  TInv'
<1>1. \A q \in Requests : Typed(q)'
  BY TypedElsewhere DEF TInv
<1> QED
  BY <1>1 DEF TInv, Stored, Version, RowOK

LEMMA UnseenKeepsTypes ==
  ASSUME TInv, NEW r \in Requests, \A q \in Requests \ {r} : Same(q), Typed(r)',
         UNCHANGED <<issue, view, audited, announced, jobs>>
  PROVE  TInv'
<1>1. Shown' /\ Sent'
  BY DEF TInv, Shown, Sent, Version, RowOK
<1> QED
  BY <1>1, LocalKeepsTypes

LEMMA NeighboursAreRanks ==
  ASSUME TInv, NEW n, NEW s
  PROVE  NeighbourRank(n, s) \in Ranks \cup {None}
BY DEF TInv, Stored, Version, NeighbourRank, Column

LEMMA LastIsARank ==
  ASSUME TInv, NEW s
  PROVE  \/ Column(s) = {} /\ LastRank(s) = None
         \/ LastRank(s) \in Ranks /\ \A i \in Column(s) : ~Less(LastRank(s), issue[i].rank)
<1> DEFINE rank == [i \in Column(s) |-> issue[i].rank]
<1>1. \A i \in Column(s) : issue[i].rank \in Ranks /\ rank[i] = issue[i].rank
  BY DEF TInv, Stored, Version, Column
<1>2. CASE Column(s) = {}
  BY <1>2 DEF LastRank
<1>3. CASE Column(s) # {}
  <2>1. IsFiniteSet(Column(s))
    BY FS_Subset DEF TInv, Stored, Column
  <2>2. \A i \in Column(s) : rank[i] \in Seq(Digit)
    BY <1>1 DEF Ranks
  <2> HIDE DEF rank
  <2>3. \E i \in Column(s) : \A j \in Column(s) : ~Less(rank[i], rank[j])
    BY <1>3, <2>1, <2>2, FiniteHasLast
  <2>4. \E i \in Column(s) : \A j \in Column(s) : ~Less(issue[i].rank, issue[j].rank)
    BY <1>1, <2>3
  <2> DEFINE last == CHOOSE i \in Column(s) :
                       \A j \in Column(s) : ~Less(issue[i].rank, issue[j].rank)
  <2>5. last \in Column(s) /\ \A j \in Column(s) : ~Less(issue[last].rank, issue[j].rank)
    BY <2>4
  <2>6. LastRank(s) = issue[last].rank
    BY <1>3 DEF LastRank
  <2> HIDE DEF last
  <2> QED
    BY <1>1, <2>5, <2>6
<1> QED
  BY <1>2, <1>3

-----------------------------------------------------------------------------
(* Each step keeps the types.                                              *)

LEMMA OpenKeepsTypes ==
  ASSUME TInv, IInv, NEW r \in Requests, NEW label \in {"place", "above", "write"}, NEW c,
         Open(r, label, c), c.actor \in Users, c.todo = {},
         c.op = "create" => /\ c.data.number \in Nat \ {0} /\ c.data.status \in Statuses
                            /\ c.data.assignee \in Users \cup {None} /\ c.data.reporter \in Users,
         c.op \in {"update", "move"} => DataOK(c.data),
         c.op = "move" => "status" \in DOMAIN c.data,
         c.op = "update" => Version(c.before),
         label = "above" => c.op = "move"
  PROVE  TInv'
<1>1. /\ pc' = [pc EXCEPT ![r] = label] /\ tx' = [tx EXCEPT ![r] = "open"]
      /\ call' = [call EXCEPT ![r] = c] /\ pending' = pending
      /\ UNCHANGED <<issue, view, audited, announced, jobs>>
  BY DEF Open, outside
<1>2. Domains
  BY DEF IInv
<1>3. pc'[r] = label /\ tx'[r] = "open" /\ call'[r] = c
  BY <1>1, <1>2 DEF Domains
<1>4. \A q \in Requests \ {r} : Same(q)
  BY <1>1, <1>2 DEF Domains, Same
<1>5. InputOK(r)'
  BY <1>3 DEF InputOK, DataOK, Version, RowOK
<1>6. ReadOK(r)'
  BY <1>3 DEF ReadOK, Late
<1>7. pending'[r] = None \/ Version(pending[r])'
  BY <1>1 DEF TInv, Typed, Version, RowOK
<1>8. Typed(r)'
  BY <1>3, <1>5, <1>6, <1>7 DEF Typed, Labels, Phases
<1> QED
  BY <1>1, <1>4, <1>8, UnseenKeepsTypes

LEMMA StartKeepsTypes ==
  ASSUME IssuesAssumption, TInv, IInv, NEW r \in Requests, NEW u \in Actors,
         \/ \E s \in Statuses, a \in Users \cup {None} : CreateCount(r, u, s, a)
         \/ \E i \in Issues, d \in Inputs : UpdateRead(r, u, i, d)
         \/ \E i \in Issues, s \in Statuses : MoveRead(r, u, i, s)
         \/ \E i \in Issues : RemoveRead(r, u, i)
  PROVE  TInv'
<1>1. u \in Users /\ counter \in Nat /\ \A i \in DOMAIN issue : Version(issue[i])
  BY DEF IssuesAssumption, IInv, StoreOK, TInv, Stored
<1>2. ASSUME NEW s \in Statuses, NEW a \in Users \cup {None}, CreateCount(r, u, s, a)
      PROVE  TInv'
  <2> DEFINE c == [op |-> "create", actor |-> u, id |-> None, before |-> None,
                   data |-> [number |-> counter + 1, status |-> s, rank |-> None,
                             assignee |-> a, reporter |-> u],
                   above |-> None, below |-> None, floor |-> None, todo |-> {}]
  <2>1. Open(r, "place", c)
    BY <1>2 DEF CreateCount
  <2>2. /\ c.actor \in Users /\ c.todo = {} /\ c.op = "create"
        /\ c.data.number \in Nat \ {0} /\ c.data.status \in Statuses
        /\ c.data.assignee \in Users \cup {None} /\ c.data.reporter \in Users
    BY <1>1
  <2> HIDE DEF c
  <2> QED
    BY <2>1, <2>2, OpenKeepsTypes
<1>3. ASSUME NEW i \in Issues, NEW d \in Inputs, UpdateRead(r, u, i, d)
      PROVE  TInv'
  <2> DEFINE c == [op |-> "update", actor |-> u, id |-> i, before |-> issue[i], data |-> d,
                   above |-> None, below |-> None, floor |-> None, todo |-> {}]
  <2>1. Open(r, "write", c) /\ i \in DOMAIN issue
    BY <1>3 DEF UpdateRead
  <2>2. DataOK(d)
    BY DEF Inputs, DataOK
  <2>3. /\ c.actor \in Users /\ c.todo = {} /\ c.op = "update" /\ c.data = d
        /\ Version(c.before)
    BY <1>1, <2>1
  <2> HIDE DEF c
  <2> QED
    BY <2>1, <2>2, <2>3, OpenKeepsTypes
<1>4. ASSUME NEW i \in Issues, NEW s \in Statuses, MoveRead(r, u, i, s)
      PROVE  TInv'
  <2>1. PICK gap \in Gaps(i, s) :
          Open(r, "above", [op |-> "move", actor |-> u, id |-> i, before |-> issue[i],
                            data |-> [status |-> s],
                            above |-> gap[1], below |-> gap[2], floor |-> None, todo |-> {}])
    BY <1>4 DEF MoveRead
  <2> DEFINE c == [op |-> "move", actor |-> u, id |-> i, before |-> issue[i],
                   data |-> [status |-> s],
                   above |-> gap[1], below |-> gap[2], floor |-> None, todo |-> {}]
  <2>2. /\ c.actor \in Users /\ c.todo = {} /\ c.op = "move" /\ c.data = [status |-> s]
        /\ Open(r, "above", c)
    BY <1>1, <2>1
  <2>3. DataOK([status |-> s]) /\ "status" \in DOMAIN [status |-> s]
    BY DEF DataOK
  <2> HIDE DEF c
  <2> QED
    BY <2>2, <2>3, OpenKeepsTypes
<1>5. ASSUME NEW i \in Issues, RemoveRead(r, u, i)
      PROVE  TInv'
  <2> DEFINE c == [op |-> "remove", actor |-> u, id |-> i, before |-> issue[i], data |-> <<>>,
                   above |-> None, below |-> None, floor |-> None, todo |-> {}]
  <2>1. Open(r, "write", c)
    BY <1>5 DEF RemoveRead
  <2>2. c.actor \in Users /\ c.todo = {} /\ c.op = "remove"
    BY <1>1
  <2> HIDE DEF c
  <2> QED
    BY <2>1, <2>2, OpenKeepsTypes
<1> QED
  BY <1>2, <1>3, <1>4, <1>5

\* A request that goes on, ends or loses its transaction, and reads nothing.
LEMMA AdvanceKeepsTypes ==
  ASSUME TInv, NEW r \in Requests, \A q \in Requests \ {r} : Same(q), pc[r] # "new",
         call'[r] = call[r], pending'[r] = pending[r], tx'[r] \in Phases,
         \/ pc'[r] = "done" \/ pc'[r] = pc[r]
         \/ pc[r] \in Late /\ pc'[r] \in Late,
         UNCHANGED <<issue, view, announced, jobs>>, audited' \subseteq Requests
  PROVE  TInv'
<1>1. InputOK(r) /\ ReadOK(r) /\ pc[r] \in Labels
  BY DEF TInv, Typed
<1>2. InputOK(r)'
  BY <1>1 DEF InputOK, DataOK, Version, RowOK
<1>3. ReadOK(r)'
  BY <1>1 DEF ReadOK, Late, Version, RowOK
<1>4. pending'[r] = None \/ Version(pending[r])'
  BY DEF TInv, Typed, Version, RowOK
<1>5. Typed(r)'
  BY <1>1, <1>2, <1>3, <1>4 DEF Typed, Labels, Late
<1>6. Shown' /\ Sent'
  BY DEF TInv, Shown, Sent, Version, RowOK
<1> QED
  BY <1>5, <1>6, LocalKeepsTypes

LEMMA EndKeepsTypes ==
  ASSUME TInv, IInv, NEW r \in Requests, Expired(r) \/ Audit(r) \/ Timeout(r) \/ Die(r)
  PROVE  TInv'
<1>1. Domains /\ pc[r] \in Labels /\ tx[r] \in Phases /\ (tx[r] = "open" => pc[r] # "new")
      /\ audited \subseteq Requests
  BY DEF IInv, TInv, Typed, RequestOK, Sent
<1>2. CASE Expired(r)
  <2>1. /\ pc[r] # "new" /\ pc' = [pc EXCEPT ![r] = "done"]
        /\ UNCHANGED <<tx, call, pending, issue, view, audited, announced, jobs>>
    BY <1>2 DEF Expired, Goto, store, outside
  <2> QED
    BY <1>1, <2>1, AdvanceKeepsTypes DEF Domains, Same
<1>3. CASE Audit(r)
  <2>1. /\ pc[r] = "audit" /\ pc' = [pc EXCEPT ![r] = "emit"]
        /\ audited' \in {audited, audited \cup {r}}
        /\ UNCHANGED <<tx, call, pending, issue, view, announced, jobs>>
    BY <1>3 DEF Audit, Goto, store
  <2> QED
    BY <1>1, <2>1, AdvanceKeepsTypes DEF Domains, Same, Late
<1>4. CASE Timeout(r)
  <2>1. /\ pc[r] # "new" /\ tx' = [tx EXCEPT ![r] = "aborted"]
        /\ UNCHANGED <<pc, call, pending, issue, view, audited, announced, jobs>>
    BY <1>1, <1>4 DEF Timeout, store, outside
  <2> QED
    BY <1>1, <2>1, AdvanceKeepsTypes DEF Domains, Same, Phases
<1>5. CASE Die(r)
  <2>1. /\ pc[r] # "new" /\ pc' = [pc EXCEPT ![r] = "done"] /\ tx' = [tx EXCEPT ![r] = "aborted"]
        /\ UNCHANGED <<call, pending, issue, view, audited, announced, jobs>>
    BY <1>5 DEF Die, InProgress, Throw, store, outside
  <2> QED
    BY <1>1, <2>1, AdvanceKeepsTypes DEF Domains, Same, Phases
<1> QED
  BY <1>2, <1>3, <1>4, <1>5

LEMMA CreatePlaceKeepsTypes ==
  ASSUME TInv, IInv, NEW r \in Requests, NEW i \in Issues, CreatePlace(r, i)
  PROVE  TInv'
<1> DEFINE last == LastRank(call[r].data.status)
           rank == IF last = None THEN FirstRank ELSE RankBetween(last, None)
           row == [call[r].data EXCEPT !.rank = rank]
<1>1. /\ pc[r] = "place" /\ tx[r] = "open" /\ tx' = tx
      /\ UNCHANGED <<issue, view, audited, announced, jobs>>
      /\ call' = [call EXCEPT ![r] = [[call[r] EXCEPT !.id = i] EXCEPT !.data = row]]
      /\ pending' = [pending EXCEPT ![r] = row]
      /\ pc' = [pc EXCEPT ![r] = "audit"]
  <2> HIDE DEF rank
  <2> QED
    BY DEF CreatePlace, Goto, store, outside, rank
<1>2. /\ Domains /\ CallOK(r) /\ call[r].op = "create" /\ DOMAIN call[r].data = Columns
      /\ InputOK(r)
  BY <1>1 DEF IInv, RequestOK, CallOK, TInv, Typed
<1>3. rank \in Ranks
  BY LastIsARank, FirstRankIsARank, NextRankIsARank
<1> HIDE DEF last, rank
<1>4. Version(row)
  <2>1. /\ row.number = call[r].data.number /\ row.status = call[r].data.status
        /\ row.assignee = call[r].data.assignee /\ row.reporter = call[r].data.reporter
        /\ row.rank = rank
    BY <1>2 DEF Columns
  <2> HIDE DEF row
  <2>2. row.rank \in Ranks /\ row.rank \in Seq(Digit)
    BY <1>3, <2>1 DEF Ranks
  <2> QED
    BY <1>2, <2>1, <2>2 DEF Version, RowOK, InputOK
<1> HIDE DEF row
<1>5. /\ pc'[r] = "audit" /\ tx'[r] = "open" /\ pending'[r] = row
      /\ \A q \in Requests \ {r} : Same(q)
  BY <1>1, <1>2 DEF Domains, Same
<1>6. call'[r] = [[call[r] EXCEPT !.id = i] EXCEPT !.data = row]
  BY <1>1, <1>2 DEF Domains
<1>7. /\ call'[r].actor = call[r].actor /\ call'[r].todo = call[r].todo
      /\ call'[r].op = "create" /\ call'[r].id = i /\ call'[r].data = row
  BY <1>2, <1>6 DEF CallOK, Fields
<1>8. Version(pending[r])' /\ Version(call[r].data)'
  BY <1>4, <1>5, <1>7 DEF Version, RowOK
<1>9. InputOK(r)'
  BY <1>2, <1>7, <1>8 DEF InputOK, Version, RowOK
<1>10. ReadOK(r)'
  BY <1>5, <1>7, <1>8 DEF ReadOK
<1>11. Typed(r)'
  BY <1>5, <1>8, <1>9, <1>10 DEF Typed, Labels, Phases
<1> QED
  BY <1>1, <1>5, <1>11, UnseenKeepsTypes

LEMMA MoveAboveKeepsTypes ==
  ASSUME TInv, IInv, NEW r \in Requests, MoveAbove(r)
  PROVE  TInv'
<1> DEFINE floor == NeighbourRank(call[r].above, call[r].data.status)
<1>1. /\ pc[r] = "above" /\ pc' = [pc EXCEPT ![r] = "below"] /\ tx' = tx /\ pending' = pending
      /\ UNCHANGED <<issue, view, audited, announced, jobs>>
      /\ call' = [call EXCEPT ![r] = [call[r] EXCEPT !.floor = floor]]
  BY DEF MoveAbove, Goto, store, outside
<1>2. floor \in Ranks \cup {None}
  BY NeighboursAreRanks
<1> HIDE DEF floor
<1>3. Domains /\ CallOK(r) /\ InputOK(r) /\ ReadOK(r) /\ tx[r] \in Phases
  BY <1>1 DEF IInv, RequestOK, TInv, Typed
<1>4. pc'[r] = "below" /\ tx'[r] = tx[r] /\ \A q \in Requests \ {r} : Same(q)
  BY <1>1, <1>3 DEF Domains, Same
<1>5. call'[r] = [call[r] EXCEPT !.floor = floor]
  BY <1>1, <1>3 DEF Domains
<1>6. /\ call'[r].actor = call[r].actor /\ call'[r].op = call[r].op
      /\ call'[r].data = call[r].data /\ call'[r].before = call[r].before
      /\ call'[r].todo = call[r].todo /\ call'[r].floor = floor
  BY <1>3, <1>5 DEF CallOK, Fields
<1>7. InputOK(r)'
  BY <1>3, <1>6 DEF InputOK, DataOK, Version, RowOK
<1>8. ReadOK(r)'
  BY <1>1, <1>2, <1>3, <1>4, <1>6 DEF ReadOK, Late
<1>9. pending'[r] = None \/ Version(pending[r])'
  BY <1>1 DEF TInv, Typed, Version, RowOK
<1>10. Typed(r)'
  BY <1>3, <1>4, <1>7, <1>8, <1>9 DEF Typed, Labels
<1> QED
  BY <1>1, <1>4, <1>10, UnseenKeepsTypes

LEMMA MoveRankKeepsTypes ==
  ASSUME TInv, IInv, NEW r \in Requests, MoveRank(r)
  PROVE  TInv'
<1> DEFINE s == call[r].data.status
           a == call[r].floor
           b == NeighbourRank(call[r].below, s)
           data == [status |-> s, rank |-> RankBetween(a, b)]
<1>1. /\ pc[r] = "below" /\ pending' = pending
      /\ UNCHANGED <<issue, view, audited, announced, jobs>>
      /\ \/ /\ call' = [call EXCEPT ![r] = [call[r] EXCEPT !.data = data]]
            /\ pc' = [pc EXCEPT ![r] = "write"] /\ tx' = tx
         \/ Throw(r) /\ call' = call
  BY DEF MoveRank, Goto, store, outside
<1>2. Domains /\ CallOK(r) /\ InputOK(r) /\ ReadOK(r) /\ tx[r] \in Phases /\ call[r].op = "move"
  BY <1>1 DEF IInv, RequestOK, TInv, Typed, ReadOK
<1>3. RankBetween(a, b) \in Ranks
  <2>1. a \in Ranks \cup {None} /\ b \in Ranks \cup {None}
    BY <1>1, <1>2, NeighboursAreRanks DEF ReadOK
  <2>2. a \in Seq(Digit) \cup {None} /\ b \in Seq(Digit) \cup {None}
    BY <2>1 DEF Ranks
  <2> HIDE DEF a, b
  <2> QED
    BY <2>2, RankBetweenIsARank
<1>4. DataOK(data) /\ "status" \in DOMAIN data
  <2>1. s \in Statuses
    BY <1>2 DEF InputOK, DataOK
  <2> HIDE DEF a, b, s
  <2> QED
    BY <1>3, <2>1 DEF DataOK
<1> HIDE DEF s, a, b, data
<1>5. CASE Throw(r) /\ call' = call
  <2>1. pc' = [pc EXCEPT ![r] = "done"] /\ tx' = [tx EXCEPT ![r] = "aborted"] /\ call' = call
    BY <1>5 DEF Throw
  <2> QED
    BY <1>1, <1>2, <2>1, AdvanceKeepsTypes DEF Domains, Same, Phases, TInv, Sent
<1>6. CASE /\ call' = [call EXCEPT ![r] = [call[r] EXCEPT !.data = data]]
           /\ pc' = [pc EXCEPT ![r] = "write"] /\ tx' = tx
  <2>1. pc'[r] = "write" /\ tx'[r] = tx[r] /\ \A q \in Requests \ {r} : Same(q)
    BY <1>1, <1>2, <1>6 DEF Domains, Same
  <2>2. call'[r] = [call[r] EXCEPT !.data = data]
    BY <1>2, <1>6 DEF Domains
  <2>3. /\ call'[r].actor = call[r].actor /\ call'[r].op = call[r].op
        /\ call'[r].before = call[r].before /\ call'[r].todo = call[r].todo
        /\ call'[r].data = data
    BY <1>2, <2>2 DEF CallOK, Fields
  <2>4. DataOK(call[r].data)' /\ "status" \in DOMAIN call'[r].data
    BY <1>4, <2>3 DEF DataOK
  <2>5. InputOK(r)'
    BY <1>2, <2>3, <2>4 DEF InputOK
  <2>6. ReadOK(r)'
    BY <2>1 DEF ReadOK, Late
  <2>7. pending'[r] = None \/ Version(pending[r])'
    BY <1>1 DEF TInv, Typed, Version, RowOK
  <2>8. Typed(r)'
    BY <1>2, <2>1, <2>5, <2>6, <2>7 DEF Typed, Labels
  <2> QED
    BY <1>1, <2>1, <2>8, UnseenKeepsTypes
<1> QED
  BY <1>1, <1>5, <1>6

LEMMA WriteKeepsTypes ==
  ASSUME TInv, IInv, NEW r \in Requests, Write(r)
  PROVE  TInv'
<1>1. /\ pc[r] = "write" /\ tx[r] = "open" /\ call' = call
      /\ UNCHANGED <<issue, view, audited, announced, jobs>>
  BY DEF Write, store, outside
<1>2. /\ Domains /\ CallOK(r) /\ call[r].op # "create" /\ call[r].id \in Issues
      /\ InputOK(r) /\ audited \subseteq Requests
  BY <1>1 DEF IInv, RequestOK, CallOK, TInv, Typed, Sent
<1>3. CASE call[r].id \notin DOMAIN issue
  <2>1. /\ pc' = [pc EXCEPT ![r] = "done"] /\ tx' = [tx EXCEPT ![r] = "aborted"]
        /\ pending' = pending
    BY <1>3 DEF Write, Throw
  <2> QED
    BY <1>1, <1>2, <2>1, AdvanceKeepsTypes DEF Domains, Same, Phases
<1>4. CASE call[r].id \in DOMAIN issue
  <2>1. /\ pending' = [pending EXCEPT ![r] = Written(r)]
        /\ pc' = [pc EXCEPT ![r] = "audit"] /\ tx' = tx
    BY <1>4 DEF Write, Goto
  <2>2. /\ pc'[r] = "audit" /\ tx'[r] = "open" /\ pending'[r] = Written(r)
        /\ call'[r] = call[r] /\ \A q \in Requests \ {r} : Same(q)
    BY <1>1, <1>2, <2>1 DEF Domains, Same
  <2>3. call[r].op # "remove" => Version(Written(r))
    <3> SUFFICES ASSUME call[r].op # "remove"
                 PROVE  Version(Set(call[r].data, issue[call[r].id]))
      BY DEF Written
    <3>1. call[r].op \in {"update", "move"}
      BY <1>2 DEF CallOK
    <3>2. DataOK(call[r].data) /\ DOMAIN call[r].data \subseteq Editable
      BY <1>2, <3>1 DEF InputOK, CallOK
    <3>3. Version(issue[call[r].id])
      BY <1>4 DEF TInv, Stored
    <3> QED
      BY <3>2, <3>3, SetMakesAVersion
  <2>4. call[r].op = "remove" => Written(r) = None
    BY DEF Written
  <2> HIDE DEF Written
  <2>5. call'[r].op # "remove" => Version(pending[r])'
    BY <2>2, <2>3 DEF Version, RowOK
  <2>6. InputOK(r)'
    BY <1>2, <2>2 DEF InputOK, DataOK, Version, RowOK
  <2>7. ReadOK(r)'
    BY <1>2, <2>2, <2>5 DEF ReadOK
  <2>8. Typed(r)'
    BY <2>2, <2>4, <2>5, <2>6, <2>7 DEF Typed, Labels, Phases
  <2> QED
    BY <1>1, <2>2, <2>8, UnseenKeepsTypes
<1> QED
  BY <1>3, <1>4

\* Recipients are members, and never nobody.
LEMMA RecipientsAreUsers ==
  ASSUME NEW r \in Requests, InputOK(r), call[r].op = "update" => Version(pending[r])
  PROVE  Recipients(r) \subseteq Users \X Kinds
<1> DEFINE c == call[r]
           assigned == IF c.op \in {"create", "update"} /\ "assignee" \in DOMAIN c.data
                          /\ (c.op = "update" => c.data.assignee # c.before.assignee)
                         THEN {c.data.assignee} ELSE {}
           watchers == IF c.op = "update" /\ "status" \in DOMAIN c.data
                          /\ c.data.status # c.before.status
                         THEN {c.before.reporter, pending[r].assignee} ELSE {}
<1>1. assigned \subseteq Users \cup {None}
  BY DEF InputOK, DataOK
<1>2. watchers \subseteq Users \cup {None}
  BY DEF InputOK, Version, RowOK
<1>3. Recipients(r) = (Told(assigned, r) \X {"ISSUE_ASSIGNED"})
                        \cup (Told(watchers, r) \X {"ISSUE_STATUS_CHANGED"})
  BY DEF Recipients
<1> HIDE DEF assigned, watchers
<1> QED
  BY <1>1, <1>2, <1>3 DEF Told, Kinds

\* What a board makes of an event is a board of rows.
LEMMA EventKeepsBoard ==
  ASSUME TInv, NEW r \in Requests, CallOK(r), InputOK(r), ReadOK(r), pc[r] = "emit"
  PROVE  /\ DOMAIN Applied(r) \subseteq Issues
         /\ \A i \in DOMAIN Applied(r) : Version(Applied(r)[i])
<1>1. DOMAIN view \subseteq Issues /\ \A i \in DOMAIN view : Version(view[i])
  BY DEF TInv, Shown
<1>2. /\ call[r].id \in Issues /\ (call[r].op # "remove" => Version(pending[r]))
      /\ call[r].op \in {"create", "update", "move", "remove"}
  BY DEF ReadOK, Late, CallOK
<1>3. CASE call[r].op = "create"
  <2>1. Payload(r) = pending[r]
    BY <1>3 DEF Payload
  <2>2. Applied(r) = IF call[r].id \in DOMAIN view THEN view ELSE Put(view, call[r].id, pending[r])
    BY <1>3, <2>1 DEF Applied
  <2> QED
    BY <1>1, <1>2, <1>3, <2>2 DEF Put
<1>4. CASE call[r].op = "remove"
  <2>1. Applied(r) = Drop(view, call[r].id)
    BY <1>4 DEF Applied
  <2> QED
    BY <1>1, <2>1 DEF Drop
<1>5. CASE call[r].op \in {"update", "move"}
  <2> DEFINE i == call[r].id
             shown == Set(Payload(r), view[i])
  <2>1. Applied(r) = IF i \in DOMAIN view THEN [view EXCEPT ![i] = shown] ELSE view
    BY <1>5 DEF Applied
  <2>2. i \in DOMAIN view => Version(shown)
    <3> SUFFICES ASSUME i \in DOMAIN view
                 PROVE  Version(shown)
      OBVIOUS
    <3>1. CASE call[r].op = "move"
      <4>1. Payload(r) = call[r].data
        BY <3>1 DEF Payload
      <4>2. DataOK(call[r].data) /\ DOMAIN call[r].data \subseteq Editable
        BY <3>1 DEF InputOK, CallOK
      <4> QED
        BY <1>1, <4>1, <4>2, SetMakesAVersion
    <3>2. CASE call[r].op = "update"
      <4>1. Payload(r) = pending[r] /\ Version(pending[r])
        BY <1>2, <3>2 DEF Payload
      <4> DEFINE p == pending[r]
      <4>2. /\ shown.number \in {p.number, view[i].number}
            /\ shown.status \in {p.status, view[i].status}
            /\ shown.rank \in {p.rank, view[i].rank}
            /\ shown.assignee \in {p.assignee, view[i].assignee}
            /\ shown.reporter \in {p.reporter, view[i].reporter}
        BY <4>1 DEF Set, Columns
      <4>3. Version(p) /\ Version(view[i])
        BY <1>1, <4>1
      <4> HIDE DEF p, shown
      <4> QED
        BY <4>2, <4>3 DEF Version, RowOK
    <3> QED
      BY <1>5, <3>1, <3>2
  <2> HIDE DEF shown
  <2> QED
    BY <1>1, <2>1, <2>2
<1> QED
  BY <1>2, <1>3, <1>4, <1>5

LEMMA EmitKeepsTypes ==
  ASSUME TInv, IInv, NEW r \in Requests, Emit(r)
  PROVE  TInv'
<1> DEFINE next == IF Recipients(r) = {} THEN "commit" ELSE "notify"
           todo == Recipients(r)
<1>1. /\ pc[r] = "emit" /\ pc' = [pc EXCEPT ![r] = next] /\ tx' = tx /\ pending' = pending
      /\ call' = [call EXCEPT ![r] = [call[r] EXCEPT !.todo = todo]]
      /\ view' = Applied(r) /\ announced' = announced \cup {r}
      /\ UNCHANGED <<issue, audited, jobs>>
  BY DEF Emit, Goto, store
<1>2. next \in {"commit", "notify"}
  OBVIOUS
<1>3. /\ Domains /\ CallOK(r) /\ InputOK(r) /\ ReadOK(r) /\ tx[r] \in Phases
  BY <1>1 DEF IInv, RequestOK, TInv, Typed
<1>4. todo \subseteq Users \X Kinds
  BY <1>1, <1>3, RecipientsAreUsers DEF ReadOK, Late
<1> HIDE DEF next, todo
<1>5. pc'[r] = next /\ tx'[r] = tx[r] /\ \A q \in Requests \ {r} : Same(q)
  BY <1>1, <1>3 DEF Domains, Same
<1>6. call'[r] = [call[r] EXCEPT !.todo = todo]
  BY <1>1, <1>3 DEF Domains
<1>7. /\ call'[r].actor = call[r].actor /\ call'[r].op = call[r].op
      /\ call'[r].data = call[r].data /\ call'[r].before = call[r].before
      /\ call'[r].id = call[r].id /\ call'[r].todo = todo
  BY <1>3, <1>6 DEF CallOK, Fields
<1>8. InputOK(r)'
  BY <1>3, <1>4, <1>7 DEF InputOK, DataOK, Version, RowOK
<1>9. ReadOK(r)'
  BY <1>1, <1>2, <1>3, <1>5, <1>7 DEF ReadOK, Late, Version, RowOK
<1>10. pending'[r] = None \/ Version(pending[r])'
  BY <1>1 DEF TInv, Typed, Version, RowOK
<1>11. Typed(r)'
  BY <1>2, <1>3, <1>5, <1>8, <1>9, <1>10 DEF Typed, Labels
<1>12. Shown'
  BY <1>1, <1>3, EventKeepsBoard DEF Shown, Version, RowOK
<1>13. Sent'
  BY <1>1 DEF TInv, Sent
<1> QED
  BY <1>1, <1>5, <1>11, <1>12, <1>13, LocalKeepsTypes

LEMMA NotifyKeepsTypes ==
  ASSUME TInv, IInv, NEW r \in Requests, Notify(r)
  PROVE  TInv'
<1>1. PICK n \in call[r].todo :
        /\ jobs' = jobs \cup {[from |-> r, to |-> n[1], kind |-> n[2]]}
        /\ call' = [call EXCEPT ![r].todo = @ \ {n}]
        /\ Goto(r, IF call[r].todo = {n} THEN "commit" ELSE "notify")
  BY DEF Notify
<1> DEFINE next == IF call[r].todo = {n} THEN "commit" ELSE "notify"
           todo == call[r].todo \ {n}
<1>2. /\ pc[r] = "notify" /\ pc' = [pc EXCEPT ![r] = next] /\ next \in {"commit", "notify"}
      /\ tx' = tx /\ pending' = pending /\ UNCHANGED <<issue, view, audited, announced>>
      /\ call' = [call EXCEPT ![r] = [call[r] EXCEPT !.todo = todo]]
  BY <1>1 DEF Notify, Goto, store
<1>3. todo \subseteq call[r].todo
  OBVIOUS
<1> HIDE DEF next, todo
<1>4. /\ Domains /\ CallOK(r) /\ InputOK(r) /\ ReadOK(r) /\ tx[r] \in Phases
  BY <1>2 DEF IInv, RequestOK, TInv, Typed
<1>5. pc'[r] = next /\ tx'[r] = tx[r] /\ \A q \in Requests \ {r} : Same(q)
  BY <1>2, <1>4 DEF Domains, Same
<1>6. call'[r] = [call[r] EXCEPT !.todo = todo]
  BY <1>2, <1>4 DEF Domains
<1>7. /\ call'[r].actor = call[r].actor /\ call'[r].op = call[r].op
      /\ call'[r].data = call[r].data /\ call'[r].before = call[r].before
      /\ call'[r].id = call[r].id /\ call'[r].todo = todo
  BY <1>4, <1>6 DEF CallOK, Fields
<1>8. InputOK(r)'
  BY <1>3, <1>4, <1>7 DEF InputOK, DataOK, Version, RowOK
<1>9. ReadOK(r)'
  BY <1>2, <1>4, <1>5, <1>7 DEF ReadOK, Late, Version, RowOK
<1>10. pending'[r] = None \/ Version(pending[r])'
  BY <1>2 DEF TInv, Typed, Version, RowOK
<1>11. Typed(r)'
  BY <1>2, <1>4, <1>5, <1>8, <1>9, <1>10 DEF Typed, Labels
<1>12. Shown'
  BY <1>2 DEF TInv, Shown, Version, RowOK
<1>13. Sent'
  <2>1. n \in Users \X Kinds
    BY <1>4 DEF InputOK
  <2> QED
    BY <1>1, <1>2, <2>1 DEF TInv, Sent
<1> QED
  BY <1>2, <1>5, <1>11, <1>12, <1>13, LocalKeepsTypes

LEMMA CommitKeepsTypes ==
  ASSUME TInv, IInv, NEW r \in Requests, Commit(r)
  PROVE  TInv'
<1>1. /\ pc[r] = "commit" /\ tx' = [tx EXCEPT ![r] = "committed"]
      /\ pc' = [pc EXCEPT ![r] = "done"]
      /\ issue' = IF call[r].op = "remove" THEN Drop(issue, call[r].id)
                                            ELSE Put(issue, call[r].id, pending[r])
      /\ UNCHANGED <<call, pending, view, audited, announced, jobs>>
  BY DEF Commit, Goto, outside
<1>2. Domains /\ InputOK(r) /\ ReadOK(r) /\ IsFiniteSet(DOMAIN issue)
  BY <1>1 DEF IInv, TInv, Typed, Stored
<1>3. Stored'
  <2>1. CASE call[r].op = "remove"
    <3>1. issue' = Drop(issue, call[r].id)
      BY <1>1, <2>1
    <3>2. DOMAIN issue' \subseteq DOMAIN issue /\ \A i \in DOMAIN issue' : issue'[i] = issue[i]
      BY <3>1 DEF Drop
    <3>3. IsFiniteSet(DOMAIN issue')
      BY <1>2, <3>2, FS_Subset
    <3> QED
      BY <3>2, <3>3 DEF TInv, Stored, Version, RowOK
  <2>2. CASE call[r].op # "remove"
    <3>1. issue' = Put(issue, call[r].id, pending[r])
      BY <1>1, <2>2
    <3>2. /\ DOMAIN issue' = DOMAIN issue \cup {call[r].id}
          /\ \A i \in DOMAIN issue' : issue'[i] = IF i = call[r].id THEN pending[r] ELSE issue[i]
      BY <3>1 DEF Put
    <3>3. IsFiniteSet(DOMAIN issue')
      BY <1>2, <3>2, FS_AddElement
    <3>4. Version(pending[r])
      BY <1>1, <1>2, <2>2 DEF ReadOK, Late
    <3> QED
      BY <3>2, <3>3, <3>4 DEF TInv, Stored, Version, RowOK
  <2> QED
    BY <2>1, <2>2
<1>4. \A q \in Requests \ {r} : Same(q)
  BY <1>1, <1>2 DEF Domains, Same
<1>5. \A q \in Requests \ {r} : Typed(q)'
  BY <1>4, TypedElsewhere DEF TInv
<1>6. Typed(r)'
  <2>1. pc'[r] = "done" /\ tx'[r] = "committed" /\ call' = call /\ pending' = pending
    BY <1>1, <1>2 DEF Domains
  <2>2. InputOK(r)'
    BY <1>2, <2>1 DEF InputOK, DataOK, Version, RowOK
  <2>3. ReadOK(r)'
    BY <2>1 DEF ReadOK, Late
  <2>4. pending'[r] = None \/ Version(pending[r])'
    BY <2>1 DEF TInv, Typed, Version, RowOK
  <2> QED
    BY <2>1, <2>2, <2>3, <2>4 DEF Typed, Labels, Phases
<1>7. Shown' /\ Sent'
  BY <1>1 DEF TInv, Shown, Sent, Version, RowOK
<1> QED
  BY <1>3, <1>5, <1>6, <1>7 DEF TInv

LEMMA InitTypes ==
  ASSUME IssuesAssumption, Init
  PROVE  TInv
<1>1. Seed \in Seq(Issues) /\ SeedStatus \in Statuses /\ SeedUser \in Users
  BY DEF IssuesAssumption
<1>2. issue = SeedTable /\ view = SeedTable
  BY DEF Init
<1>3. ASSUME NEW k \in DOMAIN Seed
      PROVE  Version(SeedRow(k))
  <2>1. k \in Nat \ {0}
    BY <1>1
  <2>2. SeedRank[k] \in Ranks /\ SeedRank[k] \in Seq(Digit)
    BY <2>1, SeedRanksAreRanks DEF Ranks
  <2> HIDE DEF SeedRank
  <2> QED
    BY <1>1, <2>1, <2>2 DEF SeedRow, Version, RowOK
<1> DEFINE at(i) == CHOOSE k \in DOMAIN Seed : Seed[k] = i
<1>4. \A i \in DOMAIN SeedTable : at(i) \in DOMAIN Seed /\ SeedTable[i] = SeedRow(at(i))
  BY DEF SeedTable
<1>5. DOMAIN SeedTable \subseteq Issues
  BY <1>1 DEF SeedTable
<1>6. IsFiniteSet(DOMAIN SeedTable)
  <2>1. DOMAIN SeedTable = {Seed[k] : k \in 1 .. Len(Seed)} /\ Len(Seed) \in Nat
    BY <1>1 DEF SeedTable
  <2>2. IsFiniteSet(1 .. Len(Seed))
    BY <2>1, FS_Interval
  <2> DEFINE id == [k \in 1 .. Len(Seed) |-> Seed[k]]
  <2>3. id \in Surjection(1 .. Len(Seed), DOMAIN SeedTable)
    BY <2>1 DEF Surjection
  <2> QED
    BY <2>2, <2>3, FS_Surjection
<1> HIDE DEF at
<1>7. \A i \in DOMAIN SeedTable : Version(SeedTable[i])
  BY <1>3, <1>4
<1>8. Stored /\ Shown
  BY <1>2, <1>5, <1>6, <1>7 DEF Stored, Shown
<1>9. Sent /\ \A r \in Requests : Typed(r)
  BY DEF Init, Sent, Typed, Labels, Phases
<1> QED
  BY <1>8, <1>9 DEF TInv

LEMMA NextKeepsTypes ==
  ASSUME IssuesAssumption, TInv, IInv, [Next]_vars
  PROVE  TInv'
<1>1. CASE UNCHANGED vars
  BY <1>1 DEF vars, TInv, Stored, Shown, Sent, Typed, InputOK, ReadOK, DataOK, Version, RowOK
<1>2. CASE Next
  <2>1. PICK r \in Requests :
          \/ \E u \in Actors, s \in Statuses, a \in Users \cup {None} : CreateCount(r, u, s, a)
          \/ \E u \in Actors, i \in Issues, d \in Inputs : UpdateRead(r, u, i, d)
          \/ \E u \in Actors, i \in Issues, s \in Statuses : MoveRead(r, u, i, s)
          \/ \E u \in Actors, i \in Issues : RemoveRead(r, u, i)
          \/ Continue(r) \/ Timeout(r) \/ Die(r)
    BY <1>2 DEF Next
  <2>2. CASE Continue(r)
    BY <2>2, CreatePlaceKeepsTypes, MoveAboveKeepsTypes, MoveRankKeepsTypes, WriteKeepsTypes,
       EndKeepsTypes, EmitKeepsTypes, NotifyKeepsTypes, CommitKeepsTypes DEF Continue
  <2>3. CASE Timeout(r) \/ Die(r)
    BY <2>3, EndKeepsTypes
  <2> QED
    BY <2>1, <2>2, <2>3, StartKeepsTypes
<1> QED
  BY <1>1, <1>2

\* Rows, requests, events and jobs keep their types, and every rank stored, shown or
\* about to be written is one rankBetween can take as a neighbour: digits that do
\* not end in zero.
THEOREM TypesHold == Spec => []TInv
<1>1. Init => IInv /\ TInv
  BY InitIInv, InitTypes, IssuesAssumption
<1>2. IInv /\ TInv /\ [Next]_vars => (IInv /\ TInv)'
  BY NextKeepsInv, NextKeepsTypes, IssuesAssumption
<1> QED
  BY <1>1, <1>2, PTL DEF Spec

\* pc and tx are functions, which the domains of the invariant do not say.
LEMMA StepSetsEntries ==
  ASSUME NEW r \in Requests, NEW u, NEW s, NEW a, NEW i, NEW d,
         \/ CreateCount(r, u, s, a) \/ UpdateRead(r, u, i, d) \/ MoveRead(r, u, i, s)
         \/ RemoveRead(r, u, i) \/ Continue(r) \/ Timeout(r) \/ Die(r)
  PROVE  /\ pc' = pc \/ \E label : pc' = [pc EXCEPT ![r] = label]
         /\ tx' = tx \/ \E state : tx' = [tx EXCEPT ![r] = state]
<1>1. CASE \/ CreateCount(r, u, s, a) \/ UpdateRead(r, u, i, d) \/ MoveRead(r, u, i, s)
           \/ RemoveRead(r, u, i)
  BY <1>1 DEF CreateCount, UpdateRead, MoveRead, RemoveRead, Open
<1>2. CASE \E j \in Issues : CreatePlace(r, j)
  BY <1>2 DEF CreatePlace, Goto
<1>3. CASE MoveAbove(r) \/ MoveRank(r) \/ Write(r) \/ Expired(r)
  BY <1>3 DEF MoveAbove, MoveRank, Write, Expired, Goto, Throw
<1>4. CASE Audit(r) \/ Emit(r) \/ Notify(r) \/ Commit(r)
  BY <1>4 DEF Audit, Emit, Notify, Commit, Goto
<1>5. CASE Timeout(r) \/ Die(r)
  BY <1>5 DEF Timeout, Die, Throw
<1> QED
  BY <1>1, <1>2, <1>3, <1>4, <1>5 DEF Continue

Functions == pc = [r \in Requests |-> pc[r]] /\ tx = [r \in Requests |-> tx[r]]

LEMMA NextKeepsFunctions ==
  ASSUME Functions, [Next]_vars
  PROVE  Functions'
<1>1. CASE UNCHANGED vars
  BY <1>1 DEF vars, Functions
<1>2. ASSUME NEW r \in Requests,
             pc' = pc \/ \E label : pc' = [pc EXCEPT ![r] = label],
             tx' = tx \/ \E state : tx' = [tx EXCEPT ![r] = state]
      PROVE  Functions'
  BY <1>2 DEF Functions
<1>3. CASE Next
  <2>1. PICK r \in Requests : \E u, s, a, i, d :
          \/ CreateCount(r, u, s, a) \/ UpdateRead(r, u, i, d) \/ MoveRead(r, u, i, s)
          \/ RemoveRead(r, u, i) \/ Continue(r) \/ Timeout(r) \/ Die(r)
    BY <1>3 DEF Next
  <2> QED
    BY <1>2, <2>1, StepSetsEntries
<1> QED
  BY <1>1, <1>3

\* The type invariant of the runs.
THEOREM TypesAreOK == Spec => []TypeOK
<1>1. IInv /\ TInv /\ Functions => TypeOK
  <2> SUFFICES ASSUME IInv, TInv, Functions
               PROVE  TypeOK
    OBVIOUS
  <2>1. counter \in Nat /\ DOMAIN issue \subseteq Issues
    BY DEF IInv, StoreOK
  <2>2. \A i \in DOMAIN issue : RowOK(issue[i])
    BY DEF TInv, Stored, Version
  <2>3. DOMAIN view \subseteq Issues /\ \A i \in DOMAIN view : RowOK(view[i])
    BY DEF TInv, Shown, Version
  <2>4. \A r \in Requests : pending[r] = None \/ RowOK(pending[r])
    BY DEF TInv, Typed, Version
  <2>5. \A r \in Requests : pc[r] \in Labels /\ tx[r] \in Phases
    BY DEF TInv, Typed
  <2> QED
    BY <2>1, <2>2, <2>3, <2>4, <2>5 DEF TypeOK, TInv, Sent, Functions, Kinds, Labels, Phases
<1>2. Init => Functions
  BY DEF Init, Functions
<1>3. Functions /\ [Next]_vars => Functions'
  BY NextKeepsFunctions
<1> QED
  BY <1>1, <1>2, <1>3, LocksHold, TypesHold, PTL DEF Spec


-----------------------------------------------------------------------------
(* Ranks that are written.                                                 *)

LEMMA LastIsBelowAll ==
  ASSUME TInv, NEW s, NEW i \in Column(s)
  PROVE  /\ LastRank(s) # None
         /\ Less(issue[i].rank, RankBetween(LastRank(s), None))
<1> DEFINE last == LastRank(s)
           rank == RankBetween(last, None)
<1>1. last \in Ranks /\ ~Less(last, issue[i].rank)
  BY LastIsARank
<1>2. last # None /\ last \in Seq(Digit)
  BY <1>1, NoneAssumption DEF Ranks
<1>3. rank \in Ranks /\ Less(last, rank)
  BY <1>1, <1>2, StrictlyBetween DEF Ordered
<1>4. issue[i].rank \in Seq(Digit) /\ rank \in Seq(Digit)
  BY <1>3 DEF TInv, Stored, Version, Column, Ranks
<1> HIDE DEF last, rank
<1>5. issue[i].rank = last \/ Less(issue[i].rank, last)
  BY <1>1, <1>2, <1>4, LessIsTotal
<1>6. Less(issue[i].rank, rank)
  BY <1>2, <1>3, <1>4, <1>5, LessIsTransitive
<1> QED
  BY <1>2, <1>6 DEF last, rank

\* Only two steps of a request leave "place" and "below" for a write.
LEMMA RanksAreMadeHere ==
  ASSUME IInv, Next, NEW r \in Requests,
         pc[r] \in {"place", "below"}, pc'[r] \in {"audit", "write"}
  PROVE  (\E i \in Issues : CreatePlace(r, i)) \/ MoveRank(r)
<1>1. PICK q \in Requests :
        \/ \E u \in Actors, s \in Statuses, a \in Users \cup {None} : CreateCount(q, u, s, a)
        \/ \E u \in Actors, i \in Issues, d \in Inputs : UpdateRead(q, u, i, d)
        \/ \E u \in Actors, i \in Issues, s \in Statuses : MoveRead(q, u, i, s)
        \/ \E u \in Actors, i \in Issues : RemoveRead(q, u, i)
        \/ Continue(q) \/ Timeout(q) \/ Die(q)
  BY DEF Next
<1>2. Domains
  BY DEF IInv
<1>3. CASE q # r
  <2>1. pc' = pc \/ \E label : pc' = [pc EXCEPT ![q] = label]
    BY <1>1, StepSetsEntries
  <2>2. pc'[r] = pc[r]
    BY <1>2, <1>3, <2>1 DEF Domains
  <2> QED
    BY <2>2
<1>4. CASE q = r
  <2>1. CASE \/ \E u \in Actors, s \in Statuses, a \in Users \cup {None} : CreateCount(r, u, s, a)
             \/ \E u \in Actors, i \in Issues, d \in Inputs : UpdateRead(r, u, i, d)
             \/ \E u \in Actors, i \in Issues, s \in Statuses : MoveRead(r, u, i, s)
             \/ \E u \in Actors, i \in Issues : RemoveRead(r, u, i)
    BY <2>1 DEF CreateCount, UpdateRead, MoveRead, RemoveRead, Open
  <2>2. CASE Timeout(r)
    BY <2>2 DEF Timeout
  <2>3. CASE Die(r)
    BY <1>2, <2>3 DEF Die, Throw, Domains
  <2>4. CASE MoveAbove(r) \/ Write(r) \/ Audit(r) \/ Emit(r) \/ Notify(r) \/ Commit(r)
    BY <2>4 DEF MoveAbove, Write, Audit, Emit, Notify, Commit
  <2>5. CASE Expired(r)
    BY <1>2, <2>5 DEF Expired, Goto, Domains
  <2> QED
    BY <1>1, <1>4, <2>1, <2>2, <2>3, <2>4, <2>5 DEF Continue
<1> QED
  BY <1>3, <1>4

\* Each rank that create and move write fits the place they read for it: below the
\* last card, strictly between the two neighbours (IssuesService.create and move,
\* rank.ts), for every base and however the column was changed before.
THEOREM RanksAlwaysFit == Spec => RanksFit
<1> DEFINE Fit(r) ==
             LET rank == call'[r].data.rank
                 a == call[r].floor
                 b == NeighbourRank(call[r].below, call[r].data.status)
             IN  /\ pc[r] = "place" /\ pc'[r] = "audit" =>
                      \A i \in Column(call[r].data.status) : Less(issue[i].rank, rank)
                 /\ pc[r] = "below" /\ pc'[r] = "write" =>
                      /\ a # None => Less(a, rank)
                      /\ b # None => Less(rank, b)
                 /\ pc[r] \in {"place", "below"} /\ pc'[r] \in {"audit", "write"} =>
                      rank[Len(rank)] # 0
<1>1. IInv /\ TInv /\ [Next]_vars => [\A r \in Requests : Fit(r)]_vars
  <2> SUFFICES ASSUME IInv, TInv, Next, NEW r \in Requests
               PROVE  Fit(r)
    OBVIOUS
  <2>1. Domains /\ Typed(r) /\ RequestOK(r)
    BY DEF IInv, TInv
  <2>2. ASSUME NEW i \in Issues, CreatePlace(r, i)
        PROVE  Fit(r)
    <3> DEFINE s == call[r].data.status
               last == LastRank(s)
               new == IF last = None THEN FirstRank ELSE RankBetween(last, None)
               row == [call[r].data EXCEPT !.rank = new]
    <3>1. /\ pc[r] = "place" /\ tx[r] = "open" /\ pc' = [pc EXCEPT ![r] = "audit"]
          /\ call' = [call EXCEPT ![r] = [[call[r] EXCEPT !.id = i] EXCEPT !.data = row]]
      <4> HIDE DEF new
      <4> QED
        BY <2>2 DEF CreatePlace, Goto, new
    <3>2. new \in Ranks /\ \A j \in Column(s) : Less(issue[j].rank, new)
      BY LastIsARank, LastIsBelowAll, FirstRankIsARank, NextRankIsARank
    <3> HIDE DEF new
    <3>3. CallOK(r) /\ DOMAIN call[r].data = Columns
      BY <2>1, <3>1 DEF RequestOK, CallOK
    <3>4. row.rank = new
      BY <3>3 DEF Columns
    <3> HIDE DEF row
    <3>5. call'[r].data = row
      BY <2>1, <3>1, <3>3 DEF Domains, CallOK, Fields
    <3>6. pc'[r] = "audit" /\ new[Len(new)] # 0
      BY <2>1, <3>1, <3>2 DEF Domains, Ranks
    <3> HIDE DEF s
    <3> QED
      BY <3>1, <3>2, <3>4, <3>5, <3>6 DEF s
  <2>3. CASE MoveRank(r)
    <3> DEFINE s == call[r].data.status
               a == call[r].floor
               b == NeighbourRank(call[r].below, s)
               new == RankBetween(a, b)
               data == [status |-> s, rank |-> new]
    <3>1. pc[r] = "below"
      BY <2>3 DEF MoveRank
    <3>2. a \in Ranks \cup {None} /\ b \in Ranks \cup {None}
      BY <2>1, <3>1, NeighboursAreRanks DEF Typed, ReadOK
    <3>3. CASE ~Ordered(a, b)
      <4>1. pc' = [pc EXCEPT ![r] = "done"]
        BY <2>3, <3>3 DEF MoveRank, Throw
      <4>2. pc'[r] = "done"
        BY <2>1, <4>1 DEF Domains
      <4> QED
        BY <4>2
    <3>4. CASE Ordered(a, b)
      <4>1. call' = [call EXCEPT ![r] = [call[r] EXCEPT !.data = data]]
        BY <2>3, <3>4 DEF MoveRank
      <4>2. /\ new \in Ranks
            /\ a # None => Less(a, new)
            /\ b # None => Less(new, b)
        <5> HIDE DEF a, b
        <5> QED
          BY <3>2, <3>4, StrictlyBetween
      <4>3. data.rank = new
        OBVIOUS
      <4> HIDE DEF new, data
      <4>4. CallOK(r)
        BY <2>1, <3>1 DEF RequestOK
      <4>5. call'[r].data = data
        BY <2>1, <4>1, <4>4 DEF Domains, CallOK, Fields
      <4>6. new[Len(new)] # 0
        <5>1. new \in Ranks
          BY <3>2, <3>4, StrictlyBetween DEF new
        <5> QED
          BY <5>1 DEF Ranks
      <4> QED
        BY <3>1, <4>2, <4>3, <4>5, <4>6
    <3> QED
      BY <3>3, <3>4
  <2>4. CASE ~((\E i \in Issues : CreatePlace(r, i)) \/ MoveRank(r))
    <3>1. ~(pc[r] \in {"place", "below"} /\ pc'[r] \in {"audit", "write"})
      BY <2>4, RanksAreMadeHere
    <3> QED
      BY <3>1
  <2> QED
    BY <2>2, <2>3, <2>4
<1> QED
  BY <1>1, LocksHold, TypesHold, PTL DEF Spec, RanksFit

=============================================================================
