--------------------------- MODULE ServicesProofs ---------------------------
(***************************************************************************)
(* Theorems about two services of the API.  Tenancy: what a statement can  *)
(* reach on a connection that others have used before, for any number of   *)
(* requests, jobs and connections.  Delivery: who is told of a comment,    *)
(* and how often, for any number of people and comments and any number of  *)
(* changes around them.  And about MCServices, which runs them beside      *)
(* Presence: what is proved of a service holds there.                      *)
(***************************************************************************)
EXTENDS MCServices, PresenceProofs

InTx == {"begun", "scoped", "auditing", "audited"}
Scoped == {"scoped", "auditing", "audited"}

\* A worker has one connection for each use, and a transaction only while its
\* handler runs.
OneEach ==
  /\ \A c, d \in Connections : lent[c] = lent[d] /\ lent[c] # Free => c = d
  /\ \A c \in Connections : \A w \in Workers : lent[c] = <<w, "tx">> => at[w] \in InTx
  /\ \A w \in Workers : at[w] \notin {"new", "ended"} => w \in Tenants

\* The organization is set on the connection of a transaction whose handler runs,
\* and on no connection that is free or lent for a plain statement.
SetWhileLent ==
  \A c \in Connections :
    /\ \A w \in Workers : lent[c] = <<w, "tx">> /\ at[w] \in Scoped => setting[c] = OrgOf[w]
    /\ (\A w \in Workers : lent[c] # <<w, "tx">>) => setting[c] \in {Unset, Empty}

TenancyInv == TenancyTypeOK /\ OneEach /\ SetWhileLent /\ StaysInside /\ PlainSeesAll

LEMMA TenancyInvInit == TenancyInit => TenancyInv
  BY TenancyAssumption DEF TenancyInit, TenancyInv, TenancyTypeOK, OneEach, SetWhileLent, StaysInside,
     PlainSeesAll, Workers

\* What the lent connections are: nobody's, or of one worker for one use.
LEMMA Uses ==
  ASSUME TenancyInv, NEW c \in Connections
  PROVE  \/ lent[c] = Free
         \/ \E w \in Workers : lent[c] = <<w, "tx">> \/ lent[c] = <<w, "plain">>
  BY DEF TenancyInv, TenancyTypeOK

LEMMA UseIsNotFree ==
  \A w \in Workers : <<w, "tx">> # Free /\ <<w, "plain">> # Free /\ <<w, "tx">> # <<w, "plain">>
  BY TenancyAssumption

\* Nobody has two connections for a transaction.
LEMMA OneTransaction ==
  ASSUME TenancyInv, NEW w \in Workers, NEW c \in Connections, lent[c] = <<w, "tx">>
  PROVE  \A d \in Connections : d # c => lent[d] # <<w, "tx">>
  BY UseIsNotFree DEF TenancyInv, OneEach

\* Without an organization in the setting every table shows all rows; with one, a
\* table under the policy shows its rows alone.
LEMMA WhatIsVisible ==
  /\ \A t \in Tables : Visible(t, Unset) = Orgs /\ Visible(t, Empty) = Orgs
  /\ \A t \in Policed : \A g \in Orgs : Visible(t, g) = {g}
  BY TenancyAssumption DEF Visible, Current

\* A connection is lent for a plain statement: it has no setting, and gets none.
LEMMA BorrowKeepsIt ==
  ASSUME TenancyInv, NEW w \in Workers, Borrow(w)
  PROVE  TenancyInv'
  BY TenancyAssumption DEF Borrow, AwaitsPlain, Lend, TenancyInv, TenancyTypeOK, OneEach,
     SetWhileLent, StaysInside, PlainSeesAll, Workers

\* A plain statement is answered: it saw every organization.
LEMMA AnswerKeepsIt ==
  ASSUME TenancyInv, NEW w \in Workers,
         NEW place \in {"ended", "queued", "audited"}, AnswerTo(w, place),
         \/ at[w] = "new" /\ (place = "ended" \/ w \in Tenants)
         \/ at[w] = "auditing" /\ place = "audited"
  PROVE  TenancyInv'
<1>1. PICK c \in Connections :
        /\ lent[c] = <<w, "plain">> /\ lent' = [lent EXCEPT ![c] = Free]
        /\ narrowed' = IF \A t \in Tables : Visible(t, setting[c]) = Orgs
                          THEN narrowed ELSE narrowed \cup {w}
        /\ at' = [at EXCEPT ![w] = place] /\ UNCHANGED <<setting, reached>>
  BY DEF AnswerTo, GiveBack, Go
<1>2. setting[c] \in {Unset, Empty}
  BY <1>1 DEF TenancyInv, SetWhileLent
<1>3. narrowed' = narrowed
  BY <1>1, <1>2, WhatIsVisible
<1>4. TenancyTypeOK'
  BY <1>1, <1>3 DEF TenancyInv, TenancyTypeOK
<1>5. OneEach'
  BY <1>1, TenancyAssumption DEF TenancyInv, TenancyTypeOK, OneEach, InTx, Workers
<1>6. SetWhileLent'
  BY <1>1, <1>2, TenancyAssumption
     DEF TenancyInv, TenancyTypeOK, OneEach, SetWhileLent, InTx, Scoped, Workers
<1>7. StaysInside' /\ PlainSeesAll'
  BY <1>1, <1>3 DEF TenancyInv, StaysInside, PlainSeesAll
<1>8. QED BY <1>4, <1>5, <1>6, <1>7 DEF TenancyInv

\* A handler goes on to its audit row, or somebody gives up waiting: no connection
\* changes hands.
LEMMA WaitingKeepsIt ==
  ASSUME TenancyInv, NEW w \in Workers, Audit(w) \/ GiveUp(w)
  PROVE  TenancyInv'
<1> USE TenancyAssumption DEF TenancyInv, TenancyTypeOK, OneEach, SetWhileLent, StaysInside,
        PlainSeesAll, InTx, Scoped, Workers
<1>1. CASE Audit(w) BY <1>1 DEF Audit, Go
<1>2. CASE GiveUp(w) BY <1>2 DEF GiveUp, AwaitsPlain, Go
<1>3. QED BY <1>1, <1>2

\* The transaction begins on a free connection and sets the organization there.
LEMMA BeginKeepsIt ==
  ASSUME TenancyInv, NEW w \in Workers, Begin(w)
  PROVE  TenancyInv'
<1>1. PICK c \in Connections : lent[c] = Free /\ lent' = [lent EXCEPT ![c] = <<w, "tx">>]
  BY DEF Begin, Lend
<1>2. at[w] = "queued" /\ at' = [at EXCEPT ![w] = "begun"] /\ UNCHANGED <<setting, reached, narrowed>>
  BY DEF Begin, Go
<1>3. TenancyTypeOK'
  BY <1>1, <1>2 DEF TenancyInv, TenancyTypeOK
<1>4. OneEach'
  BY <1>1, <1>2, TenancyAssumption DEF TenancyInv, TenancyTypeOK, OneEach, InTx, Workers
<1>5. SetWhileLent'
  BY <1>1, <1>2, TenancyAssumption
     DEF TenancyInv, TenancyTypeOK, OneEach, SetWhileLent, InTx, Scoped, Workers
<1>6. QED BY <1>2, <1>3, <1>4, <1>5 DEF TenancyInv, StaysInside, PlainSeesAll
LEMMA SetOrgKeepsIt ==
  ASSUME TenancyInv, NEW w \in Workers, SetOrg(w)
  PROVE  TenancyInv'
<1>1. PICK c \in Connections :
        lent[c] = <<w, "tx">> /\ setting' = [setting EXCEPT ![c] = OrgOf[w]]
  BY DEF SetOrg
<1>2. at[w] = "begun" /\ at' = [at EXCEPT ![w] = "scoped"] /\ UNCHANGED <<lent, reached, narrowed>>
  BY DEF SetOrg, Go
<1>3. w \in Tenants /\ OrgOf[w] \in Orgs
  BY <1>2, TenancyAssumption DEF TenancyInv, OneEach
<1>4. TenancyTypeOK' /\ OneEach'
  BY <1>1, <1>2, <1>3 DEF TenancyInv, TenancyTypeOK, OneEach, InTx
<1>5. \A d \in Connections : d # c => lent[d] # <<w, "tx">>
  BY <1>1, OneTransaction
<1>6. SetWhileLent'
  <2> SUFFICES ASSUME NEW d \in Connections
               PROVE  /\ \A v \in Workers :
                           lent[d] = <<v, "tx">> /\ at'[v] \in Scoped => setting'[d] = OrgOf[v]
                      /\ (\A v \in Workers : lent[d] # <<v, "tx">>) => setting'[d] \in {Unset, Empty}
    BY <1>2 DEF SetWhileLent
  <2>1. CASE d = c
    BY <1>1, <1>2, <2>1 DEF TenancyInv, TenancyTypeOK
  <2>2. CASE d # c
    BY <1>1, <1>2, <1>5, <2>2 DEF TenancyInv, TenancyTypeOK, SetWhileLent, Scoped
  <2>3. QED BY <2>1, <2>2
<1>7. QED BY <1>2, <1>4, <1>6 DEF TenancyInv, StaysInside, PlainSeesAll

\* A statement of a handler reaches what its own transaction shows it.
LEMMA StatementKeepsIt ==
  ASSUME TenancyInv, NEW w \in Workers, Statement(w)
  PROVE  TenancyInv'
<1>1. PICK c \in Connections :
        /\ lent[c] = <<w, "tx">>
        /\ reached' = [reached EXCEPT ![w] = @ \cup
             {to \in Tables \X Orgs : to[2] \in Visible(to[1], setting[c])}]
  BY DEF Statement, Store
<1>2. w \in Tenants /\ at[w] \in {"scoped", "audited"} /\ UNCHANGED <<at, lent, setting, narrowed>>
  BY DEF Statement, InHandler
<1>3. setting[c] = OrgOf[w] /\ OrgOf[w] \in Orgs
  BY <1>1, <1>2, TenancyAssumption DEF TenancyInv, SetWhileLent, Scoped
<1>4. \A to \in Tables \X Orgs :
        to[1] \in Policed /\ to[2] \in Visible(to[1], setting[c]) => to[2] = OrgOf[w]
  BY <1>3, WhatIsVisible
<1>5. StaysInside'
  BY <1>1, <1>2, <1>4 DEF TenancyInv, TenancyTypeOK, StaysInside
<1>6. TenancyTypeOK'
  BY <1>1, <1>2 DEF TenancyInv, TenancyTypeOK
<1>7. QED BY <1>2, <1>5, <1>6 DEF TenancyInv, OneEach, SetWhileLent, PlainSeesAll

\* A transaction ends, and its setting with it.
LEMMA CloseKeepsIt ==
  ASSUME TenancyInv, NEW w \in Workers, NEW c \in Connections, lent[c] = <<w, "tx">>, Close(c),
         UNCHANGED <<reached, narrowed>>,
         \/ at' = [at EXCEPT ![w] = "ended"]
         \/ at[w] # "begun" /\ UNCHANGED at
  PROVE  TenancyInv'
<1>1. lent' = [lent EXCEPT ![c] = Free] /\ \E g \in {Unset, Empty} : setting' = [setting EXCEPT ![c] = g]
  BY DEF Close, GiveBack, Afterwards
<1>2. \A d \in Connections : d # c => lent[d] # <<w, "tx">>
  BY OneTransaction
<1>3. TenancyTypeOK'
  BY <1>1 DEF TenancyInv, TenancyTypeOK
<1>4. \A d \in Connections : lent'[d] = IF d = c THEN Free ELSE lent[d]
  BY <1>1 DEF TenancyInv, TenancyTypeOK
<1>5. \A v \in Workers : v # w => at'[v] = at[v]
  BY DEF TenancyInv, TenancyTypeOK
<1>6. OneEach'
  <2>1. \A d, e \in Connections : lent'[d] = lent'[e] /\ lent'[d] # Free => d = e
    BY <1>4 DEF TenancyInv, OneEach
  <2>2. \A d \in Connections : \A v \in Workers : lent'[d] = <<v, "tx">> => at'[v] \in InTx
    BY <1>2, <1>4, <1>5, UseIsNotFree DEF TenancyInv, OneEach
  <2>3. \A v \in Workers : at'[v] \notin {"new", "ended"} => v \in Tenants
    BY <1>5 DEF TenancyInv, TenancyTypeOK, OneEach
  <2>4. QED BY <2>1, <2>2, <2>3 DEF OneEach
<1>7. SetWhileLent'
  <2> SUFFICES ASSUME NEW d \in Connections
               PROVE  /\ \A v \in Workers :
                           lent'[d] = <<v, "tx">> /\ at'[v] \in Scoped => setting'[d] = OrgOf[v]
                      /\ (\A v \in Workers : lent'[d] # <<v, "tx">>) => setting'[d] \in {Unset, Empty}
    BY DEF SetWhileLent
  <2>1. CASE d = c
    BY <1>1, <1>4, <2>1, UseIsNotFree DEF TenancyInv, TenancyTypeOK
  <2>2. CASE d # c
    BY <1>1, <1>2, <1>4, <1>5, <2>2 DEF TenancyInv, TenancyTypeOK, SetWhileLent
  <2>3. QED BY <2>1, <2>2
<1>8. QED BY <1>3, <1>6, <1>7 DEF TenancyInv, StaysInside, PlainSeesAll

LEMMA ExpireKeepsIt ==
  ASSUME TenancyInv, NEW w \in Workers, Expire(w)
  PROVE  TenancyInv'
  BY CloseKeepsIt DEF Expire, Go

\* A handler ends, with its transaction or after it has timed out.
LEMMA EndKeepsIt ==
  ASSUME TenancyInv, NEW w \in Workers, End(w)
  PROVE  TenancyInv'
<1>1. CASE \E c \in Connections : lent[c] = <<w, "tx">> /\ Close(c)
  BY <1>1, CloseKeepsIt DEF End, Go
<1>2. CASE (\A c \in Connections : lent[c] # <<w, "tx">>) /\ UNCHANGED <<lent, setting>>
  BY <1>2, TenancyAssumption
     DEF End, Go, TenancyInv, TenancyTypeOK, OneEach, SetWhileLent, StaysInside, PlainSeesAll,
         InTx, Scoped, Workers
<1>3. QED BY <1>1, <1>2 DEF End

\* For any number of requests, jobs and connections, settings and loans stay in the
\* relation that TenancyInv describes.
THEOREM LoansAreKept == TenancySpec => []TenancyInv
<1>1. TenancyInv /\ [TenancyNext]_tenancyVars => TenancyInv'
  <2> SUFFICES ASSUME TenancyInv, [TenancyNext]_tenancyVars PROVE TenancyInv' OBVIOUS
  <2>1. CASE UNCHANGED tenancyVars
    BY <2>1 DEF tenancyVars, TenancyInv, TenancyTypeOK, OneEach, SetWhileLent, StaysInside,
                PlainSeesAll
  <2>2. ASSUME NEW w \in Workers, TenancyStep(w) \/ Audit(w) \/ Statement(w) \/ Expire(w)
        PROVE  TenancyInv'
    <3>1. CASE Borrow(w) BY <3>1, BorrowKeepsIt
    <3>2. CASE Work(w) BY <3>2, AnswerKeepsIt DEF Work
    <3>3. CASE Admit(w) BY <3>3, AnswerKeepsIt DEF Admit
    <3>4. CASE Audited(w) BY <3>4, AnswerKeepsIt DEF Audited
    <3>5. CASE GiveUp(w) \/ Audit(w) BY <3>5, WaitingKeepsIt
    <3>6. CASE Begin(w) BY <3>6, BeginKeepsIt
    <3>7. CASE SetOrg(w) BY <3>7, SetOrgKeepsIt
    <3>8. CASE Statement(w) BY <3>8, StatementKeepsIt
    <3>9. CASE Expire(w) BY <3>9, ExpireKeepsIt
    <3>10. CASE End(w) BY <3>10, EndKeepsIt
    <3>11. QED
      BY <2>2, <3>1, <3>2, <3>3, <3>4, <3>5, <3>6, <3>7, <3>8, <3>9, <3>10 DEF TenancyStep
  <2>3. QED BY <2>1, <2>2 DEF TenancyNext
<1>2. QED BY TenancyInvInit, <1>1, PTL DEF TenancySpec

\* A handler without a WHERE clause reaches, in the tables with the policy, the rows
\* of its own organization only, whoever used the connection before.
THEOREM TenantsAreApart == TenancySpec => []StaysInside
  BY LoansAreKept, PTL DEF TenancyInv

\* What runs on the plain client sees every organization, on whatever connection.
THEOREM PlainIsUnscoped == TenancySpec => []PlainSeesAll
  BY LoansAreKept, PTL DEF TenancyInv

-----------------------------------------------------------------------------
(* Delivery.  The invariant: what a comment has left to tell and the jobs  *)
(* on the queue are of different people (CommentsOK); an attempt has       *)
(* stored its row, or sent its mail, at most once more than the history    *)
(* has repetitions (JobsOK); and the assignee that was read is the one to  *)
(* be told (AssigneeKnown).                                                *)

Comment == [at : {"new", "resolved", "telling", "stored", "failed"},
            by : People \cup {Nobody}, asked : SUBSET People,
            assignee : People \cup {Nobody}, tell : SUBSET Jobs]

DeliveryTypes ==
  /\ members \subseteq People /\ muted \subseteq People /\ assignee \in People \cup {Nobody}
  /\ comment \in [Comments -> Comment]
  /\ job \in [Jobs -> {"none", "waiting", "row", "user", "mail", "done", "failed"}]
  /\ failures \in [Jobs -> Nat] /\ stalls \in [Jobs -> Nat]
  /\ rows \in [Jobs -> Nat] /\ mails \in [Jobs -> Nat]
  /\ repeated \in [Jobs -> Nat] /\ lateDeath \in [Jobs -> Nat]

Queued(j)   == job[j] # "none"
HeardOf(c, j) == j \in comment[c].tell \/ Queued(j)

CommentOK(c) ==
  /\ \A j \in comment[c].tell : j[1] = c /\ ~Queued(j)
  /\ comment[c].at \in {"new", "resolved"} =>
       comment[c].tell = {} /\ \A j \in Jobs : j[1] = c => ~Queued(j)
  /\ \A j \in Jobs : j[1] = c /\ Queued(j) => j[2] # comment[c].by
  /\ \A j, k \in Jobs : /\ j[1] = c /\ k[1] = c /\ j[2] = k[2]
                        /\ HeardOf(c, j) /\ HeardOf(c, k)
                        => j = k
CommentsOK == \A c \in Comments : CommentOK(c)

JobOK(j) ==
  /\ failures[j] <= Attempts /\ stalls[j] <= MaxStalls + 1
  /\ job[j] \notin {"done", "failed"} => failures[j] < Attempts /\ stalls[j] <= MaxStalls
  /\ ~Queued(j) => rows[j] = 0
  /\ rows[j] <= 1 + repeated[j]
  /\ job[j] \in {"none", "waiting", "row"} => rows[j] <= repeated[j]
  /\ mails[j] <= 1 + lateDeath[j]
  /\ job[j] # "done" => mails[j] <= lateDeath[j]
JobsOK == \A j \in Jobs : JobOK(j)

KnownFor(c) ==
  c \notin reassigned =>
    /\ comment[c].at = "resolved" => comment[c].assignee = assignee
    /\ comment[c].at = "telling" /\ assignee \notin {Nobody, comment[c].by} =>
         \E j \in Jobs : j[1] = c /\ j[2] = assignee /\ HeardOf(c, j)
AssigneeKnown == \A c \in Comments : KnownFor(c)

DeliveryInv == DeliveryTypes /\ CommentsOK /\ JobsOK /\ AssigneeKnown

LEMMA JobParts ==
  /\ \A j \in Jobs : /\ j[1] \in Comments /\ j[2] \in People /\ j[3] \in Kinds
                     /\ j = <<j[1], j[2], j[3]>>
  /\ \A c \in Comments, u \in People, k \in Kinds :
       <<c, u, k>> \in Jobs /\ <<c, u, k>>[1] = c /\ <<c, u, k>>[2] = u /\ <<c, u, k>>[3] = k
  BY DEF Jobs

\* What create makes of the mentions and the watchers: one job for each person.
LEMMA OneJobEach ==
  ASSUME NEW c \in Comments, NEW S \in SUBSET People, DeliveryTypes
  PROVE  /\ ToTell(c, S) \subseteq Jobs
         /\ \A j \in ToTell(c, S) : j[1] = c
         /\ \A j, k \in ToTell(c, S) : j[2] = k[2] => j = k
         /\ comment[c].assignee # Nobody =>
              \E j \in ToTell(c, S) : j[2] = comment[c].assignee
<1>0. /\ comment[c].assignee \in People \cup {Nobody} /\ Reporter \in People
      /\ "MENTIONED" \in Kinds /\ "COMMENT_CREATED" \in Kinds /\ Nobody \notin People
  BY DeliveryAssumption DEF DeliveryTypes, Comment, Kinds
<1> DEFINE W == {Reporter, comment[c].assignee} \ (S \cup {Nobody})
<1>1. W \subseteq People /\ \A u \in W : u \notin S
  BY <1>0
<1>2. ToTell(c, S) = {<<c, u, "MENTIONED">> : u \in S} \cup {<<c, u, "COMMENT_CREATED">> : u \in W}
  BY DEF ToTell
<1>3. comment[c].assignee # Nobody => comment[c].assignee \in S \/ comment[c].assignee \in W
  BY <1>0
<1> HIDE DEF W
<1>4. ASSUME NEW j \in ToTell(c, S)
      PROVE  /\ j \in Jobs /\ j[1] = c
             /\ \/ j = <<c, j[2], "MENTIONED">> /\ j[2] \in S
                \/ j = <<c, j[2], "COMMENT_CREATED">> /\ j[2] \in W
  <2>1. ASSUME NEW u \in S, j = <<c, u, "MENTIONED">>
        PROVE  j \in Jobs /\ j[1] = c /\ j[2] = u
    BY <1>0, <2>1, JobParts
  <2>2. ASSUME NEW u \in W, j = <<c, u, "COMMENT_CREATED">>
        PROVE  j \in Jobs /\ j[1] = c /\ j[2] = u
    BY <1>0, <1>1, <2>2, JobParts
  <2> QED
    BY <1>2, <2>1, <2>2
<1>5. \A j, k \in ToTell(c, S) : j[2] = k[2] => j = k
  BY <1>1, <1>4
<1>6. ASSUME comment[c].assignee # Nobody
      PROVE  \E j \in ToTell(c, S) : j[2] = comment[c].assignee
  <2>1. CASE comment[c].assignee \in S
    <3>1. <<c, comment[c].assignee, "MENTIONED">> \in ToTell(c, S)
      BY <1>2, <2>1
    <3> QED
      BY <3>1
  <2>2. CASE comment[c].assignee \in W
    <3>1. <<c, comment[c].assignee, "COMMENT_CREATED">> \in ToTell(c, S)
      BY <1>2, <2>2
    <3> QED
      BY <3>1
  <2> QED
    BY <1>3, <1>6, <2>1, <2>2
<1> QED
  BY <1>4, <1>5, <1>6

LEMMA DeliveryInvInit == DeliveryInit => DeliveryInv
<1> SUFFICES ASSUME DeliveryInit
             PROVE  DeliveryInv
  OBVIOUS
<1>1. NewComment \in Comment
  BY DEF NewComment, Comment
<1>2. \A c \in Comments : comment[c].at = "new" /\ comment[c].tell = {}
  BY DEF DeliveryInit, NewComment
<1>3. DeliveryTypes
  BY <1>1, DeliveryAssumption DEF DeliveryInit, DeliveryTypes
<1>4. CommentsOK /\ AssigneeKnown
  BY <1>2 DEF DeliveryInit, CommentsOK, CommentOK, AssigneeKnown, KnownFor, Queued, HeardOf
<1>5. JobsOK
  BY DEF DeliveryInit, JobsOK, JobOK, Queued, Attempts, MaxStalls
<1> QED
  BY <1>3, <1>4, <1>5 DEF DeliveryInv

\* One step of a job: it is on the queue before and after, and stays within bounds.
WorkTypes ==
  /\ job \in [Jobs -> {"none", "waiting", "row", "user", "mail", "done", "failed"}]
  /\ failures \in [Jobs -> Nat] /\ stalls \in [Jobs -> Nat]
  /\ rows \in [Jobs -> Nat] /\ mails \in [Jobs -> Nat]
  /\ repeated \in [Jobs -> Nat] /\ lateDeath \in [Jobs -> Nat]

Alike(k) ==
  /\ job'[k] = job[k] /\ failures'[k] = failures[k] /\ stalls'[k] = stalls[k]
  /\ rows'[k] = rows[k] /\ mails'[k] = mails[k]
  /\ repeated'[k] = repeated[k] /\ lateDeath'[k] = lateDeath[k]

LEMMA CountedUp ==
  ASSUME NEW f \in [Jobs -> Nat], NEW j \in Jobs
  PROVE  /\ [f EXCEPT ![j] = @ + 1] \in [Jobs -> Nat]
         /\ [f EXCEPT ![j] = @ + 1][j] = f[j] + 1
         /\ \A k \in Jobs \ {j} : [f EXCEPT ![j] = @ + 1][k] = f[k]
  OBVIOUS

LEMMA Moved ==
  ASSUME WorkTypes, NEW j \in Jobs,
         NEW w \in {"none", "waiting", "row", "user", "mail", "done", "failed"}, Moves(j, w)
  PROVE  /\ job' \in [Jobs -> {"none", "waiting", "row", "user", "mail", "done", "failed"}]
         /\ job'[j] = w /\ \A k \in Jobs \ {j} : job'[k] = job[k]
  BY DEF WorkTypes, Moves

LEMMA RepeatsCounts ==
  ASSUME WorkTypes, NEW j \in Jobs, Repeats(j)
  PROVE  /\ repeated' \in [Jobs -> Nat]
         /\ repeated'[j] = IF StoredRow(j) THEN repeated[j] + 1 ELSE repeated[j]
         /\ \A k \in Jobs \ {j} : repeated'[k] = repeated[k]
  BY DEF WorkTypes, Repeats

LEMMA JobStep ==
  ASSUME WorkTypes, NEW j \in Jobs, JobOK(j), Deliver(j) \/ AttemptFails(j) \/ Die(j)
  PROVE  /\ WorkTypes' /\ JobOK(j)' /\ Queued(j) /\ Queued(j)'
         /\ \A k \in Jobs \ {j} : Alike(k)
         /\ UNCHANGED <<issueState, comment, reassigned>>
<1> DEFINE Good == /\ WorkTypes' /\ JobOK(j)' /\ Queued(j) /\ Queued(j)'
                   /\ \A k \in Jobs \ {j} : Alike(k)
                   /\ UNCHANGED <<issueState, comment, reassigned>>
<1>0. /\ failures[j] \in Nat /\ stalls[j] \in Nat /\ rows[j] \in Nat /\ mails[j] \in Nat
      /\ repeated[j] \in Nat /\ lateDeath[j] \in Nat
  BY DEF WorkTypes
<1>1. CASE Start(j)
  <2>1. job'[j] = "row" /\ job[j] = "waiting" /\ WorkTypes' /\ \A k \in Jobs \ {j} : Alike(k)
    BY <1>1, Moved DEF Start, WorkTypes, Alike
  <2> QED
    BY <1>0, <1>1, <2>1 DEF JobOK, Queued, Start
<1>2. CASE StoreRow(j)
  <2>1. /\ rows' \in [Jobs -> Nat] /\ rows'[j] = rows[j] + 1
        /\ \A k \in Jobs \ {j} : rows'[k] = rows[k]
    BY <1>2, CountedUp DEF StoreRow, WorkTypes
  <2>2. job'[j] = "user" /\ job[j] = "row" /\ WorkTypes' /\ \A k \in Jobs \ {j} : Alike(k)
    BY <1>2, <2>1, Moved DEF StoreRow, WorkTypes, Alike
  <2> QED
    BY <1>0, <1>2, <2>1, <2>2 DEF JobOK, Queued, StoreRow
<1>3. CASE ReadUser(j)
  <2>1. /\ job'[j] \in {"done", "mail"} /\ job[j] = "user" /\ WorkTypes'
        /\ \A k \in Jobs \ {j} : Alike(k)
    BY <1>3, Moved DEF ReadUser, WorkTypes, Alike
  <2> QED
    BY <1>0, <1>3, <2>1 DEF JobOK, Queued, ReadUser
<1>4. CASE AttemptFails(j)
  <2>1. /\ failures' \in [Jobs -> Nat] /\ failures'[j] = failures[j] + 1
        /\ \A k \in Jobs \ {j} : failures'[k] = failures[k]
    BY <1>4, CountedUp DEF AttemptFails, Throw, WorkTypes
  <2>2. /\ job' \in [Jobs -> {"none", "waiting", "row", "user", "mail", "done", "failed"}]
        /\ job'[j] = WhenFailed(j) /\ \A k \in Jobs \ {j} : job'[k] = job[k]
    BY <1>4, Moved DEF AttemptFails, Throw, WhenFailed
  <2>3. WorkTypes' /\ \A k \in Jobs \ {j} : Alike(k)
    BY <1>4, <2>1, <2>2, RepeatsCounts DEF AttemptFails, Throw, WorkTypes, Alike
  <2>4. /\ job[j] \in {"row", "user"}
        /\ repeated'[j] = IF job[j] = "user" THEN repeated[j] + 1 ELSE repeated[j]
        /\ rows'[j] = rows[j] /\ mails'[j] = mails[j] /\ lateDeath'[j] = lateDeath[j]
        /\ stalls'[j] = stalls[j]
    BY <1>4, RepeatsCounts DEF AttemptFails, Throw, StoredRow
  <2> QED
    BY <1>0, <1>4, <2>1, <2>2, <2>3, <2>4
    DEF JobOK, Queued, AttemptFails, WhenFailed, Attempts, MaxStalls
<1>5. CASE SendMail(j)
  <2>1. /\ mails' \in [Jobs -> Nat] /\ mails'[j] \in {mails[j], mails[j] + 1}
        /\ \A k \in Jobs \ {j} : mails'[k] = mails[k]
    BY <1>5, CountedUp DEF SendMail, WorkTypes
  <2>2. /\ job'[j] = "done" /\ job[j] = "mail"
        /\ job' \in [Jobs -> {"none", "waiting", "row", "user", "mail", "done", "failed"}]
        /\ \A k \in Jobs \ {j} : job'[k] = job[k]
    BY <1>5, Moved DEF SendMail, MailError
  <2>3. UNCHANGED <<failures, stalls, repeated, rows, lateDeath, issueState, comment, reassigned>>
    BY <1>5 DEF SendMail, MailError
  <2>4. WorkTypes' /\ \A k \in Jobs \ {j} : Alike(k)
    BY <2>1, <2>2, <2>3 DEF WorkTypes, Alike
  <2> QED
    BY <1>0, <2>1, <2>2, <2>3, <2>4 DEF JobOK, Queued
<1>6. CASE Die(j)
  <2>1. /\ stalls' \in [Jobs -> Nat] /\ stalls'[j] = stalls[j] + 1
        /\ \A k \in Jobs \ {j} : stalls'[k] = stalls[k]
    BY <1>6, CountedUp DEF Die, WorkTypes
  <2>2. /\ job' \in [Jobs -> {"none", "waiting", "row", "user", "mail", "done", "failed"}]
        /\ job'[j] = WhenStalled(j) /\ \A k \in Jobs \ {j} : job'[k] = job[k]
    BY <1>6, Moved DEF Die, WhenStalled
  <2>3. /\ mails' \in [Jobs -> Nat] /\ lateDeath' \in [Jobs -> Nat]
        /\ \/ mails'[j] = mails[j] /\ lateDeath'[j] = lateDeath[j]
           \/ mails'[j] = mails[j] + 1 /\ lateDeath'[j] = lateDeath[j] + 1
        /\ \A k \in Jobs \ {j} : mails'[k] = mails[k] /\ lateDeath'[k] = lateDeath[k]
    <3>1. CASE UNCHANGED <<mails, lateDeath>>
      BY <3>1 DEF WorkTypes
    <3>2. CASE /\ mails' = [mails EXCEPT ![j] = @ + 1]
               /\ lateDeath' = [lateDeath EXCEPT ![j] = @ + 1]
      <4>1. mails \in [Jobs -> Nat] /\ lateDeath \in [Jobs -> Nat]
        BY DEF WorkTypes
      <4>2. /\ mails' \in [Jobs -> Nat] /\ mails'[j] = mails[j] + 1
            /\ \A k \in Jobs \ {j} : mails'[k] = mails[k]
        BY <3>2, <4>1, CountedUp
      <4>3. /\ lateDeath' \in [Jobs -> Nat] /\ lateDeath'[j] = lateDeath[j] + 1
            /\ \A k \in Jobs \ {j} : lateDeath'[k] = lateDeath[k]
        BY <3>2, <4>1, CountedUp
      <4> QED
        BY <4>2, <4>3
    <3> QED
      BY <1>6, <3>1, <3>2 DEF Die
  <2>4. WorkTypes' /\ \A k \in Jobs \ {j} : Alike(k)
    BY <1>6, <2>1, <2>2, <2>3, RepeatsCounts DEF Die, WorkTypes, Alike
  <2>5. /\ job[j] \in {"row", "user", "mail"}
        /\ repeated'[j] = IF job[j] \in {"user", "mail"} THEN repeated[j] + 1 ELSE repeated[j]
        /\ rows'[j] = rows[j] /\ failures'[j] = failures[j]
    BY <1>6, RepeatsCounts DEF Die, Active, StoredRow
  <2> QED
    BY <1>0, <1>6, <2>1, <2>2, <2>3, <2>4, <2>5
    DEF JobOK, Queued, Die, WhenStalled, Attempts, MaxStalls
<1> QED
  BY <1>1, <1>2, <1>3, <1>4, <1>5, <1>6 DEF Deliver

LEMMA JobsNext ==
  ASSUME DeliveryInv, NEW j \in Jobs, Deliver(j) \/ AttemptFails(j) \/ Die(j)
  PROVE  DeliveryInv'
<1>1. /\ WorkTypes' /\ JobOK(j)' /\ Queued(j) /\ Queued(j)'
      /\ \A k \in Jobs \ {j} : Alike(k)
      /\ UNCHANGED <<issueState, comment, reassigned>>
  BY JobStep DEF DeliveryInv, DeliveryTypes, WorkTypes, JobsOK
<1>2. \A k \in Jobs : Queued(k)' <=> Queued(k)
  BY <1>1 DEF Alike, Queued
<1>3. \A c \in Comments, k \in Jobs : HeardOf(c, k)' <=> HeardOf(c, k)
  BY <1>1, <1>2 DEF HeardOf
<1>4. DeliveryTypes'
  BY <1>1 DEF WorkTypes, DeliveryInv, DeliveryTypes, issueState
<1>5. JobsOK'
  <2>1. ASSUME NEW k \in Jobs \ {j}
        PROVE  JobOK(k)'
    BY <1>1 DEF Alike, DeliveryInv, JobsOK, JobOK, Queued
  <2> QED
    BY <1>1, <2>1 DEF JobsOK
<1>6. CommentsOK'
  <2>1. ASSUME NEW c \in Comments
        PROVE  CommentOK(c)'
    <3>1. CommentOK(c) /\ comment'[c] = comment[c] /\ comment[c].tell \subseteq Jobs
      BY <1>1 DEF DeliveryInv, CommentsOK, DeliveryTypes, Comment
    <3> QED
      BY <1>2, <1>3, <3>1 DEF CommentOK
  <2> QED
    BY <2>1 DEF CommentsOK
<1>7. AssigneeKnown'
  <2>1. comment' = comment /\ assignee' = assignee /\ reassigned' = reassigned
    BY <1>1 DEF issueState
  <2> QED
    BY <1>3, <2>1 DEF DeliveryInv, AssigneeKnown, KnownFor
<1> QED
  BY <1>4, <1>5, <1>6, <1>7 DEF DeliveryInv

LEMMA IssueNext ==
  ASSUME DeliveryInv, Reassign \/ \E u \in People : Leave(u) \/ SetPrefs(u)
  PROVE  DeliveryInv'
<1>1. UNCHANGED <<comment, work>>
  BY DEF Reassign, Leave, SetPrefs
<1>2. DeliveryTypes'
  BY <1>1 DEF DeliveryInv, DeliveryTypes, Reassign, Leave, SetPrefs, work
<1>3. CommentsOK' /\ JobsOK'
  BY <1>1 DEF DeliveryInv, CommentsOK, CommentOK, JobsOK, JobOK, Queued, HeardOf, work
<1>4. AssigneeKnown'
  <2>1. \A c \in Comments, j \in Jobs : HeardOf(c, j)' <=> HeardOf(c, j)
    BY <1>1 DEF HeardOf, Queued, work
  <2>2. CASE Reassign
    <3>1. \A c \in Comments : c \notin reassigned' => comment'[c].at \notin {"resolved", "telling"}
      BY <1>1, <2>2 DEF Reassign
    <3> QED
      BY <3>1 DEF AssigneeKnown, KnownFor
  <2>3. CASE UNCHANGED <<assignee, reassigned>>
    BY <1>1, <2>1, <2>3 DEF DeliveryInv, AssigneeKnown, KnownFor
  <2> QED
    BY <2>2, <2>3 DEF Leave, SetPrefs
<1> QED
  BY <1>2, <1>3, <1>4 DEF DeliveryInv

\* A step of one comment, which touches no job but its own.
LEMMA OneCommentChanges ==
  ASSUME DeliveryInv, NEW c \in Comments, UNCHANGED <<issueState, reassigned>>,
         comment' \in [Comments -> Comment], WorkTypes', JobsOK',
         \A d \in Comments \ {c} : comment'[d] = comment[d],
         \A k \in Jobs : k[1] # c => job'[k] = job[k],
         CommentOK(c)', KnownFor(c)'
  PROVE  DeliveryInv'
<1>1. DeliveryTypes'
  BY DEF DeliveryInv, DeliveryTypes, WorkTypes, issueState
<1>2. ASSUME NEW d \in Comments \ {c}
      PROVE  CommentOK(d)' /\ KnownFor(d)'
  <2>1. CommentOK(d) /\ KnownFor(d) /\ comment'[d] = comment[d]
    BY DEF DeliveryInv, CommentsOK, AssigneeKnown
  <2>2. \A k \in Jobs : k[1] = d => (Queued(k)' <=> Queued(k)) /\ (HeardOf(d, k)' <=> HeardOf(d, k))
    BY <2>1 DEF Queued, HeardOf
  <2>3. assignee' = assignee /\ reassigned' = reassigned
    BY DEF issueState
  <2>4. comment[d].tell \subseteq Jobs
    BY DEF DeliveryInv, DeliveryTypes, Comment
  <2>5. CommentOK(d)'
    BY <2>1, <2>2, <2>4 DEF CommentOK
  <2>6. KnownFor(d)'
    BY <2>1, <2>2, <2>3 DEF KnownFor
  <2> QED
    BY <2>5, <2>6
<1> QED
  BY <1>1, <1>2 DEF DeliveryInv, CommentsOK, AssigneeKnown

\* The steps of a request that put nothing on the queue.
LEMMA CommentNext ==
  ASSUME DeliveryInv, NEW c \in Comments, Resolve(c) \/ Insert(c) \/ Commit(c) \/ Fail(c)
  PROVE  DeliveryInv'
<1>0. /\ UNCHANGED <<issueState, work, reassigned>> /\ job' = job
      /\ CommentOK(c) /\ KnownFor(c) /\ comment \in [Comments -> Comment]
      /\ comment[c] \in Comment
      /\ members \subseteq People /\ assignee \in People \cup {Nobody} /\ assignee' = assignee
      /\ reassigned' = reassigned
  BY DEF DeliveryInv, CommentsOK, AssigneeKnown, DeliveryTypes, work, issueState,
         Resolve, Insert, Commit, Fail
<1>1. WorkTypes' /\ JobsOK'
  BY <1>0 DEF DeliveryInv, DeliveryTypes, WorkTypes, JobsOK, JobOK, Queued, work
<1>2. \A k \in Jobs : Queued(k)' <=> Queued(k)
  BY <1>0 DEF Queued
<1>3. ASSUME NEW r \in Comment, comment' = [comment EXCEPT ![c] = r],
             CommentOK(c)', KnownFor(c)'
      PROVE  DeliveryInv'
  BY <1>0, <1>1, <1>3, OneCommentChanges
<1>4. CASE Resolve(c)
  <2>1. PICK a \in members, asked \in SUBSET People :
          comment' = [comment EXCEPT ![c] = [at |-> "resolved", by |-> a, asked |-> asked,
                                             assignee |-> assignee, tell |-> {}]]
    BY <1>4 DEF Resolve
  <2> DEFINE r == [at |-> "resolved", by |-> a, asked |-> asked,
                   assignee |-> assignee, tell |-> {}]
  <2>2. r \in Comment /\ r.at = "resolved" /\ r.by = a /\ r.assignee = assignee /\ r.tell = {}
    BY <1>0 DEF Comment
  <2> HIDE DEF r
  <2>3. comment' = [comment EXCEPT ![c] = r] /\ comment'[c] = r
    BY <1>0, <2>1 DEF r
  <2>4. \A j \in Jobs : j[1] = c => ~Queued(j)
    BY <1>0, <1>4 DEF Resolve, CommentOK
  <2>5. CommentOK(c)'
    BY <1>2, <2>2, <2>3, <2>4 DEF CommentOK, HeardOf
  <2>6. KnownFor(c)'
    BY <1>0, <2>2, <2>3 DEF KnownFor
  <2> QED
    BY <1>3, <2>2, <2>3, <2>5, <2>6
<1>5. CASE Insert(c)
  <2> DEFINE S == comment[c].asked \cap members
             r == [comment[c] EXCEPT !.at = "telling", !.asked = {}, !.assignee = Nobody,
                                     !.tell = ToTell(c, S)]
  <2>1. S \in SUBSET People
    BY <1>0
  <2>2. comment' = [comment EXCEPT ![c] = r]
    BY <1>5 DEF Insert
  <2> HIDE DEF S
  <2>3. /\ ToTell(c, S) \subseteq Jobs
        /\ \A j \in ToTell(c, S) : j[1] = c
        /\ \A j, k \in ToTell(c, S) : j[2] = k[2] => j = k
        /\ comment[c].assignee # Nobody =>
             \E j \in ToTell(c, S) : j[2] = comment[c].assignee
    BY <2>1, OneJobEach DEF DeliveryInv
  <2> DEFINE T == ToTell(c, S)
  <2> HIDE DEF T
  <2>4. r = [comment[c] EXCEPT !.at = "telling", !.asked = {}, !.assignee = Nobody, !.tell = T]
    BY DEF T
  <2>5. T \subseteq Jobs
    BY <2>3 DEF T
  <2> HIDE DEF r
  <2>6. r \in Comment /\ r.at = "telling" /\ r.by = comment[c].by /\ r.tell = T
    BY <1>0, <2>4, <2>5 DEF Comment
  <2>7. comment'[c] = r
    BY <1>0, <2>2
  <2>8. \A j \in Jobs : j[1] = c => ~Queued(j)
    BY <1>0, <1>5 DEF Insert, CommentOK
  <2>9. CommentOK(c)'
    <3>1. \A j \in Jobs : j[1] = c => (HeardOf(c, j)' <=> j \in T)
      BY <1>2, <2>6, <2>7, <2>8 DEF HeardOf
    <3>2. \A j \in T : j[1] = c /\ j \in Jobs
      BY <2>3 DEF T
    <3>3. \A j, k \in T : j[2] = k[2] => j = k
      BY <2>3 DEF T
    <3> QED
      BY <1>2, <2>6, <2>7, <2>8, <3>1, <3>2, <3>3 DEF CommentOK
  <2>10. KnownFor(c)'
    <3>1. c \notin reassigned => comment[c].assignee = assignee
      BY <1>0, <1>5 DEF KnownFor, Insert
    <3>2. \A j \in T : j[1] = c /\ j \in Jobs /\ HeardOf(c, j)'
      BY <2>3, <2>6, <2>7 DEF T, HeardOf
    <3>3. comment[c].assignee # Nobody => \E j \in T : j[2] = comment[c].assignee
      BY <2>3 DEF T
    <3> QED
      BY <1>0, <2>6, <2>7, <3>1, <3>2, <3>3 DEF KnownFor
  <2> QED
    BY <1>3, <2>2, <2>6, <2>9, <2>10
<1>6. CASE Commit(c)
  <2> DEFINE r == [comment[c] EXCEPT !.at = "stored"]
  <2>1. comment' = [comment EXCEPT ![c] = r] /\ comment[c].tell = {}
    BY <1>6 DEF Commit
  <2>2. r \in Comment /\ r.at = "stored" /\ r.by = comment[c].by /\ r.tell = comment[c].tell
    BY <1>0 DEF Comment
  <2> HIDE DEF r
  <2>3. comment'[c] = r
    BY <1>0, <2>1
  <2>4. CommentOK(c)'
    BY <1>0, <1>2, <2>1, <2>2, <2>3 DEF CommentOK, HeardOf
  <2>5. KnownFor(c)'
    BY <2>2, <2>3 DEF KnownFor
  <2> QED
    BY <1>3, <2>1, <2>2, <2>4, <2>5
<1>7. CASE Fail(c)
  <2> DEFINE r == [comment[c] EXCEPT !.at = "failed", !.asked = {},
                                     !.assignee = Nobody, !.tell = {}]
  <2>1. comment' = [comment EXCEPT ![c] = r]
    BY <1>7 DEF Fail
  <2>2. r \in Comment /\ r.at = "failed" /\ r.by = comment[c].by /\ r.tell = {}
    BY <1>0 DEF Comment
  <2> HIDE DEF r
  <2>3. comment'[c] = r
    BY <1>0, <2>1
  <2>4. CommentOK(c)'
    BY <1>0, <1>2, <2>2, <2>3 DEF CommentOK, HeardOf
  <2>5. KnownFor(c)'
    BY <2>2, <2>3 DEF KnownFor
  <2> QED
    BY <1>3, <2>1, <2>2, <2>4, <2>5
<1> QED
  BY <1>4, <1>5, <1>6, <1>7

\* enqueue puts what is left to tell on the queue, but nothing for the author.
LEMMA EnqueueNext ==
  ASSUME DeliveryInv, NEW c \in Comments, NEW j \in Jobs, Enqueue(c, j)
  PROVE  DeliveryInv'
<1>0. /\ UNCHANGED <<issueState, reassigned>>
      /\ UNCHANGED <<failures, stalls, rows, mails, repeated, lateDeath>>
      /\ assignee' = assignee /\ reassigned' = reassigned
      /\ CommentOK(c) /\ KnownFor(c) /\ comment \in [Comments -> Comment]
      /\ comment[c] \in Comment /\ j \in comment[c].tell /\ comment[c].tell \subseteq Jobs
      /\ job \in [Jobs -> {"none", "waiting", "row", "user", "mail", "done", "failed"}]
  BY DEF DeliveryInv, CommentsOK, AssigneeKnown, DeliveryTypes, issueState, Enqueue, Comment
<1> DEFINE r == [comment[c] EXCEPT !.tell = @ \ {j}]
<1>1. comment' = [comment EXCEPT ![c] = r]
  BY DEF Enqueue
<1>2. /\ r \in Comment /\ r.at = comment[c].at /\ r.by = comment[c].by
      /\ r.assignee = comment[c].assignee /\ r.tell = comment[c].tell \ {j}
  BY <1>0 DEF Comment
<1> HIDE DEF r
<1>3. /\ comment' \in [Comments -> Comment] /\ comment'[c] = r
      /\ \A d \in Comments \ {c} : comment'[d] = comment[d]
  BY <1>0, <1>1, <1>2
<1>4. j[1] = c /\ ~Queued(j) /\ comment[c].at \notin {"new", "resolved"}
  BY <1>0 DEF CommentOK
<1>5. /\ job' \in [Jobs -> {"none", "waiting", "row", "user", "mail", "done", "failed"}]
      /\ \A k \in Jobs \ {j} : job'[k] = job[k]
      /\ j[2] = comment[c].by => job'[j] = job[j]
      /\ j[2] # comment[c].by => job'[j] = "waiting"
  BY <1>0 DEF Enqueue, Recipient
<1>6. WorkTypes'
  BY <1>0, <1>5 DEF WorkTypes, DeliveryInv, DeliveryTypes
<1>7. JobsOK'
  <2>1. ASSUME NEW k \in Jobs, job'[k] = job[k]
        PROVE  JobOK(k)'
    BY <1>0, <2>1 DEF DeliveryInv, JobsOK, JobOK, Queued
  <2>2. ASSUME job'[j] = "waiting"
        PROVE  JobOK(j)'
    <3>1. /\ rows[j] = 0 /\ repeated[j] \in Nat /\ lateDeath[j] \in Nat /\ mails[j] \in Nat
          /\ job[j] = "none" /\ JobOK(j)
      BY <1>4 DEF DeliveryInv, DeliveryTypes, JobsOK, JobOK, Queued
    <3> QED
      BY <1>0, <2>2, <3>1 DEF JobOK, Queued
  <2> QED
    BY <1>5, <2>1, <2>2 DEF JobsOK
<1>8. /\ \A k \in Jobs \ {j} : Queued(k)' <=> Queued(k)
      /\ Queued(j)' <=> j[2] # comment[c].by
  BY <1>4, <1>5 DEF Queued
<1>9. \A k \in Jobs : HeardOf(c, k)' => HeardOf(c, k)
  BY <1>0, <1>2, <1>3, <1>8 DEF HeardOf
<1>10. CommentOK(c)'
  BY <1>0, <1>2, <1>3, <1>4, <1>8, <1>9 DEF CommentOK
<1>11. KnownFor(c)'
  <2>1. \A k \in Jobs : HeardOf(c, k) /\ k[2] # comment[c].by => HeardOf(c, k)'
    BY <1>2, <1>3, <1>8 DEF HeardOf
  <2> QED
    BY <1>0, <1>2, <1>3, <2>1 DEF KnownFor
<1>12. \A k \in Jobs : k[1] # c => job'[k] = job[k]
  BY <1>4, <1>5
<1> QED
  BY <1>0, <1>3, <1>6, <1>7, <1>10, <1>11, <1>12, OneCommentChanges

LEMMA DeliveryInvNext == DeliveryInv /\ [DeliveryNext]_deliveryVars => DeliveryInv'
<1> SUFFICES ASSUME DeliveryInv, [DeliveryNext]_deliveryVars
             PROVE  DeliveryInv'
  OBVIOUS
<1>1. CASE UNCHANGED deliveryVars
  BY <1>1 DEF deliveryVars, issueState, work, DeliveryInv, DeliveryTypes, CommentsOK, CommentOK,
              JobsOK, JobOK, AssigneeKnown, KnownFor, Queued, HeardOf
<1>2. CASE DeliveryNext
  BY <1>2, IssueNext, CommentNext, EnqueueNext, JobsNext DEF DeliveryNext
<1> QED
  BY <1>1, <1>2

\* The invariant that the properties of the notifications follow from.
THEOREM NotificationsAreKept == DeliverySpec => []DeliveryInv
  BY DeliveryInvInit, DeliveryInvNext, PTL DEF DeliverySpec

\* Every variable has its type, and nothing is tried more often than it may be:
\* at most three attempts that fail, and two whose worker dies.
THEOREM DeliveryTypesHold == DeliverySpec => []DeliveryTypeOK
<1>1. DeliveryInv => DeliveryTypeOK
  <2> SUFFICES ASSUME DeliveryInv
               PROVE  DeliveryTypeOK
    OBVIOUS
  <2>1. /\ failures \in [Jobs -> 0 .. Attempts] /\ stalls \in [Jobs -> 0 .. MaxStalls + 1]
    BY DEF DeliveryInv, DeliveryTypes, JobsOK, JobOK, Attempts, MaxStalls
  <2>2. \A c \in Comments : comment[c] \in Comment
    BY DEF DeliveryInv, DeliveryTypes
  <2> QED
    BY <2>1, <2>2 DEF DeliveryInv, DeliveryTypes, DeliveryTypeOK, Comment
<1> QED
  BY <1>1, NotificationsAreKept, PTL

\* Everybody is told of a comment once, and its author never; a second row or mail
\* has an attempt that failed or died as its cause.
THEOREM NobodyIsToldTwice == DeliverySpec => []ToldOnce
<1>1. DeliveryInv => ToldOnce
  <2> SUFFICES ASSUME DeliveryInv, NEW c \in Comments, NEW u \in People
               PROVE  LET told == {j \in Jobs : j[1] = c /\ j[2] = u /\ rows[j] > 0} IN
                      /\ Cardinality(told) <= 1 /\ (u = comment[c].by => told = {})
                      /\ \A j \in told : rows[j] <= 1 + repeated[j] /\ mails[j] <= 1 + lateDeath[j]
    BY DEF ToldOnce
  <2> DEFINE told == {j \in Jobs : j[1] = c /\ j[2] = u /\ rows[j] > 0}
  <2>1. \A j \in told : j \in Jobs /\ JobOK(j) /\ Queued(j) /\ j[1] = c /\ j[2] = u
    BY DEF DeliveryInv, JobsOK, JobOK
  <2>2. \A j \in told : rows[j] <= 1 + repeated[j] /\ mails[j] <= 1 + lateDeath[j]
    BY <2>1 DEF JobOK
  <2>3. \A j, k \in told : j = k
    BY <2>1 DEF DeliveryInv, CommentsOK, CommentOK, HeardOf
  <2>4. u = comment[c].by => told = {}
    BY <2>1 DEF DeliveryInv, CommentsOK, CommentOK
  <2> HIDE DEF told
  <2>5. Cardinality(told) <= 1
    <3>1. CASE told = {}
      BY <3>1, FS_EmptySet
    <3>2. CASE told # {}
      <4>1. PICK j \in told : told = {j}
        BY <2>3, <3>2
      <4> QED
        BY <4>1, FS_Singleton
    <3> QED
      BY <3>1, <3>2
  <2> QED
    BY <2>2, <2>4, <2>5 DEF told
<1> QED
  BY <1>1, NotificationsAreKept, PTL

\* The assignee has been put on the queue when the comment has told everybody.
THEOREM AssigneesAreTold == DeliverySpec => []AssigneeIsTold
<1>1. DeliveryInv => AssigneeIsTold
  BY DEF DeliveryInv, AssigneeKnown, KnownFor, AssigneeIsTold, HeardOf, Queued
<1> QED
  BY <1>1, NotificationsAreKept, PTL

-----------------------------------------------------------------------------
(* MCServices.                                                             *)

\* A behaviour of the three services is a behaviour of each of them, so what holds
\* of a service holds in the run that puts them side by side.
THEOREM ServicesAreServices == ServicesSpec => PresenceSpec /\ TenancySpec /\ DeliverySpec
<1>1. ServicesInit => PresenceInit /\ TenancyInit /\ DeliveryInit
  BY DEF ServicesInit
<1>2. [ServicesNext]_servicesVars =>
        [PresenceNext]_presenceVars /\ [TenancyNext]_tenancyVars /\ [DeliveryNext]_deliveryVars
  <2>1. CASE UNCHANGED servicesVars
    BY <2>1 DEF servicesVars
  <2>2. CASE ServicesNext
    BY <2>2 DEF ServicesNext, InPresence, InTenancy, InDelivery
  <2> QED
    BY <2>1, <2>2
<1> QED
  BY <1>1, <1>2, PTL DEF ServicesSpec, PresenceSpec, TenancySpec, DeliverySpec

\* Each service keeps the types of its module in the run that puts them side by
\* side.
THEOREM ServicesKeepTheirTypes == ServicesSpec => []ServicesTypeOK
<1>1. PresenceInv => PresenceTypeOK
  BY DEF PresenceInv
<1>2. TenancyInv => TenancyTypeOK
  BY DEF TenancyInv
<1>3. PresenceTypeOK /\ TenancyTypeOK /\ DeliveryTypeOK => ServicesTypeOK
  BY DEF ServicesTypeOK
<1> QED
  BY <1>1, <1>2, <1>3, ServicesAreServices, RostersAreKept, LoansAreKept, DeliveryTypesHold, PTL

=============================================================================
