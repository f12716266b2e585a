---------------------------- MODULE TokensProofs ----------------------------
(***************************************************************************)
(* The theorems about Tokens, for every set of tokens, families, users and *)
(* handlers.  The inductive invariant is TypeOK /\ Carried (what a handler *)
(* carries is about a stored row), then FamilyHasOneUser and SingleHolder, *)
(* each inductive on top of those two.                                     *)
(***************************************************************************)
EXTENDS Tokens, TLAPS

Inv == TypeOK /\ Carried

-----------------------------------------------------------------------------
(* How one step changes the table: rows are never deleted, never change    *)
(* family or user, and never lose a revocation or an expiry.               *)

LEMMA RowWrites ==
  ASSUME NEW x \in Row
  PROVE  [x EXCEPT !.revoked = TRUE] \in Row /\ [x EXCEPT !.expired = TRUE] \in Row
  BY DEF Row

\* The table after each of the four statements that write it.
LEMMA TableAfterRevokeFamily ==
  ASSUME TypeOK, NEW r \in Requests, RevokeFamily(r)
  PROVE  /\ Stored' = Stored
         /\ row' \in [Stored -> Row]
         /\ \A t \in Stored : row'[t] = IF row[t].family = grant[r].family
                                          THEN [row[t] EXCEPT !.revoked = TRUE] ELSE row[t]
<1> DEFINE new(t) == IF row[t].family = grant[r].family
                       THEN [row[t] EXCEPT !.revoked = TRUE] ELSE row[t]
<1>1. row' = [t \in Stored |-> new(t)]
  BY DEF RevokeFamily
<1>2. \A t \in Stored : row[t] \in Row
  BY DEF TypeOK
<1>3. \A t \in Stored : new(t) \in Row
  BY <1>2, RowWrites
<1>4. DOMAIN row' = Stored
  BY <1>1
<1> HIDE DEF new
<1>5. row' \in [Stored -> Row] /\ \A t \in Stored : row'[t] = new(t)
  BY <1>1, <1>3
<1> QED
  BY <1>4, <1>5 DEF Stored, new

LEMMA TableAfterConsume ==
  ASSUME TypeOK, Carried, NEW r \in Requests, Consume(r)
  PROVE  /\ presented[r] \in Stored
         /\ Stored' = Stored
         /\ row' \in [Stored -> Row]
         /\ \A t \in Stored : row'[t] = IF t = presented[r]
                                          THEN [row[t] EXCEPT !.revoked = TRUE] ELSE row[t]
<1> DEFINE p == presented[r]
<1>1. p \in Stored
  BY DEF Consume, Carried
<1>2. row' = [row EXCEPT ![p] = [row[p] EXCEPT !.revoked = TRUE]]
  BY DEF Consume
<1>3. row \in [Stored -> Row]
  BY DEF TypeOK
<1>4. [row[p] EXCEPT !.revoked = TRUE] \in Row
  BY <1>1, <1>3, RowWrites
<1> HIDE DEF p
<1>5. row' \in [Stored -> Row] /\ DOMAIN row' = Stored
  BY <1>1, <1>2, <1>3, <1>4
<1>6. \A t \in Stored : row'[t] = IF t = p THEN [row[t] EXCEPT !.revoked = TRUE] ELSE row[t]
  BY <1>1, <1>2, <1>3
<1> QED
  BY <1>1, <1>5, <1>6 DEF Stored, p

LEMMA TableAfterCreateRefresh ==
  ASSUME TypeOK, Carried, NEW r \in Requests, NEW s \in Tokens, CreateRefresh(r, s)
  PROVE  /\ grant[r] \in Grant
         /\ s \notin Stored
         /\ Stored' = Stored \cup {s}
         /\ row' \in [Stored' -> Row]
         /\ row'[s] = [family  |-> grant[r].family, user    |-> grant[r].user,
                       revoked |-> FALSE,           expired |-> FALSE]
         /\ \A t \in Stored : row'[t] = row[t]
<1> DEFINE fresh == [family  |-> grant[r].family, user    |-> grant[r].user,
                     revoked |-> FALSE,           expired |-> FALSE]
<1>1. grant[r] \in Grant
  BY DEF CreateRefresh, Carried
<1>2. fresh \in Row
  BY <1>1 DEF Row, Grant
<1>3. row' = [t \in Stored \cup {s} |-> IF t = s THEN fresh ELSE row[t]] /\ s \notin Stored
  BY DEF CreateRefresh
<1>4. \A t \in Stored : row[t] \in Row
  BY DEF TypeOK
<1>5. DOMAIN row' = Stored \cup {s}
  BY <1>3
<1> HIDE DEF fresh
<1>6. row' \in [Stored \cup {s} -> Row]
  BY <1>2, <1>3, <1>4
<1>7. row'[s] = fresh /\ \A t \in Stored : row'[t] = row[t]
  BY <1>3
<1> QED
  BY <1>1, <1>3, <1>5, <1>6, <1>7 DEF Stored, fresh

LEMMA TableAfterExpire ==
  ASSUME TypeOK, NEW s \in Tokens, Expire(s)
  PROVE  /\ Stored' = Stored
         /\ row' \in [Stored -> Row]
         /\ \A t \in Stored : row'[t] = IF t = s
                                          THEN [row[t] EXCEPT !.expired = TRUE] ELSE row[t]
<1>1. row' = [row EXCEPT ![s] = [row[s] EXCEPT !.expired = TRUE]] /\ s \in Stored
  BY DEF Expire
<1>2. row \in [Stored -> Row]
  BY DEF TypeOK
<1>3. [row[s] EXCEPT !.expired = TRUE] \in Row
  BY <1>1, <1>2, RowWrites
<1>4. row' \in [Stored -> Row] /\ DOMAIN row' = Stored
  BY <1>1, <1>2, <1>3
<1>5. \A t \in Stored : row'[t] = IF t = s THEN [row[t] EXCEPT !.expired = TRUE] ELSE row[t]
  BY <1>1, <1>2
<1> QED
  BY <1>4, <1>5 DEF Stored

\* One of those four statements, or the table as it was.
LEMMA TableSteps ==
  ASSUME [Next]_vars
  PROVE  \/ UNCHANGED row
         \/ \E r \in Requests : RevokeFamily(r)
         \/ \E r \in Requests : Consume(r)
         \/ \E r \in Requests, s \in Tokens : CreateRefresh(r, s)
         \/ \E s \in Tokens : Expire(s)
  BY DEF Next, Continue, Login, RotateLookup, LogoutLookup, Fail, vars

LEMMA RowsAreKept ==
  ASSUME Inv, [Next]_vars, NEW t \in Stored
  PROVE  /\ t \in Stored'
         /\ row'[t].family = row[t].family
         /\ row'[t].user = row[t].user
         /\ row[t].revoked => row'[t].revoked
         /\ row[t].expired => row'[t].expired
<1>0. row[t] \in Row
  BY DEF Inv, TypeOK
<1>1. CASE UNCHANGED row
  BY <1>1 DEF Stored
<1>2. ASSUME NEW r \in Requests, RevokeFamily(r)
      PROVE  t \in Stored' /\ row'[t] \in {row[t], [row[t] EXCEPT !.revoked = TRUE]}
  BY <1>2, TableAfterRevokeFamily DEF Inv
<1>3. ASSUME NEW r \in Requests, Consume(r)
      PROVE  t \in Stored' /\ row'[t] \in {row[t], [row[t] EXCEPT !.revoked = TRUE]}
  BY <1>3, TableAfterConsume DEF Inv
<1>4. ASSUME NEW r \in Requests, NEW s \in Tokens, CreateRefresh(r, s)
      PROVE  t \in Stored' /\ row'[t] = row[t]
  BY <1>4, TableAfterCreateRefresh DEF Inv
<1>5. ASSUME NEW s \in Tokens, Expire(s)
      PROVE  t \in Stored' /\ row'[t] \in {row[t], [row[t] EXCEPT !.expired = TRUE]}
  BY <1>5, TableAfterExpire DEF Inv
<1> QED
  BY <1>0, <1>1, <1>2, <1>3, <1>4, <1>5, TableSteps DEF Row

LEMMA TableTyped ==
  ASSUME Inv, [Next]_vars
  PROVE  Stored' \subseteq Tokens /\ row' \in [Stored' -> Row]
<1>1. Stored \subseteq Tokens /\ row \in [Stored -> Row]
  BY DEF Inv, TypeOK
<1>2. UNCHANGED row => Stored' = Stored /\ row' = row
  BY DEF Stored
<1> QED
  BY <1>1, <1>2, TableSteps, TableAfterRevokeFamily, TableAfterConsume,
     TableAfterCreateRefresh, TableAfterExpire DEF Inv

-----------------------------------------------------------------------------
(* The steps, one at a time, keep TypeOK and Carried.                      *)

LEMMA InvInit == Init => Inv
  BY DEF Init, Inv, TypeOK, Carried, Stored

LEMMA InvNext == Inv /\ [Next]_vars => Inv'
<1> SUFFICES ASSUME Inv, [Next]_vars
             PROVE  Inv'
  OBVIOUS
<1> DEFINE Handlers == /\ pc \in [Requests -> {"idle", "revoke", "consume", "create"}]
                       /\ presented \in [Requests -> Tokens \cup {None}]
                       /\ grant \in [Requests -> Grant \cup {None}]
           Others(r) == \A q \in Requests \ {r} :
                          /\ pc'[q] = pc[q]
                          /\ presented'[q] = presented[q]
                          /\ grant'[q] = grant[q]
           FamilyNames == condemned \subseteq Families /\ forked \subseteq Families
           Holds(r) == /\ pc[r] # "idle" => grant[r] \in Grant
                       /\ pc[r] = "consume" =>
                            presented[r] \in Stored /\ grant[r] = GrantOf(presented[r])
<1>a. Handlers /\ FamilyNames /\ \A q \in Requests : Holds(q)
  BY DEF Inv, TypeOK, Carried
<1>b. \A t \in Stored : t \in Stored' /\ GrantOf(t)' = GrantOf(t) /\ GrantOf(t) \in Grant
  <2>1. \A t \in Stored : row[t] \in Row
    BY DEF Inv, TypeOK
  <2> QED
    BY <2>1, RowsAreKept DEF GrantOf, Grant, Row
<1>c. ASSUME NEW r \in Requests, Others(r), Holds(r)'
      PROVE  \A q \in Requests : Holds(q)'
  BY <1>a, <1>b, <1>c
<1>d. SUFFICES Handlers' /\ FamilyNames' /\ \A q \in Requests : Holds(q)'
  BY <1>d, TableTyped DEF Inv, TypeOK, Carried
<1>e. ASSUME NEW r \in Requests, End(r)
      PROVE  Handlers' /\ \A q \in Requests : Holds(q)'
  <2>1. Handlers' /\ Others(r) /\ Holds(r)'
    BY <1>e, <1>a DEF End
  <2> QED
    BY <2>1, <1>c
<1>f. ASSUME NEW r \in Requests, NEW l \in {"revoke", "consume", "create"},
             NEW t \in Tokens \cup {None}, NEW g \in Grant, Enter(r, l, t, g),
             l = "consume" => t \in Stored /\ g = GrantOf(t)
      PROVE  Handlers' /\ \A q \in Requests : Holds(q)'
  <2>1. /\ Handlers' /\ Others(r)
        /\ pc'[r] = l /\ presented'[r] = t /\ grant'[r] = g
    BY <1>f, <1>a DEF Enter
  <2>2. Holds(r)'
    BY <2>1, <1>f, <1>b
  <2> QED
    BY <2>1, <2>2, <1>c
<1> HIDE DEF Handlers, Holds
<1>1. ASSUME NEW r \in Requests, NEW u \in Users, NEW f \in Families, Login(r, u, f)
      PROVE  Handlers' /\ FamilyNames' /\ \A q \in Requests : Holds(q)'
  <2>1. [family |-> f, user |-> u] \in Grant
    BY DEF Grant
  <2> QED
    BY <1>1, <2>1, <1>a, <1>f DEF Login
<1>2. ASSUME NEW r \in Requests, NEW t \in Tokens, RotateLookup(r, t) \/ LogoutLookup(r, t)
      PROVE  Handlers' /\ FamilyNames' /\ \A q \in Requests : Holds(q)'
  BY <1>2, <1>a, <1>b, <1>f DEF RotateLookup, LogoutLookup
<1>3. ASSUME NEW r \in Requests, RevokeFamily(r)
      PROVE  Handlers' /\ FamilyNames' /\ \A q \in Requests : Holds(q)'
  <2>1. grant[r].family \in Families
    BY <1>3, <1>a DEF RevokeFamily, Holds, Grant
  <2> QED
    BY <1>3, <2>1, <1>a, <1>e DEF RevokeFamily
<1>4. ASSUME NEW r \in Requests, Consume(r)
      PROVE  Handlers' /\ FamilyNames' /\ \A q \in Requests : Holds(q)'
  <2>1. presented[r] \in Stored /\ grant[r] \in Grant
    BY <1>4, <1>a DEF Consume, Holds
  <2>2. row[presented[r]].family \in Families
    BY <2>1 DEF Inv, TypeOK, Row
  <2> QED
    BY <1>4, <2>1, <2>2, <1>a, <1>f DEF Consume
<1>5. ASSUME NEW r \in Requests, NEW t \in Tokens, CreateRefresh(r, t)
      PROVE  Handlers' /\ FamilyNames' /\ \A q \in Requests : Holds(q)'
  BY <1>5, <1>a, <1>e DEF CreateRefresh
<1>6. ASSUME NEW r \in Requests, Fail(r)
      PROVE  Handlers' /\ FamilyNames' /\ \A q \in Requests : Holds(q)'
  BY <1>6, <1>a, <1>e DEF Fail
<1>7. CASE UNCHANGED <<pc, presented, grant, condemned, forked>>
  BY <1>7, <1>a, <1>b DEF Handlers, Holds
<1> QED
  BY <1>1, <1>2, <1>3, <1>4, <1>5, <1>6, <1>7 DEF Next, Continue, Expire, vars

\* TypeOK and Carried hold in every reachable state: the variables of the
\* token store keep their types, and a handler carries the family and the user
\* of the row it looked up.
THEOREM TypeCorrect == Spec => [](TypeOK /\ Carried)
<1>1. Spec => []Inv
  BY InvInit, InvNext, PTL DEF Spec
<1> QED
  BY <1>1, PTL DEF Inv
-----------------------------------------------------------------------------
(* FamilyHasOneUser, part by part.                                         *)

\* How one step changes the set of handlers that are about to insert a token.
LEMMA CreatingSteps ==
  ASSUME Inv, [Next]_vars
  PROVE  \A q \in Creating' :
           \/ q \in Creating /\ grant'[q] = grant[q]
           \/ \E u \in Users, f \in Families : Login(q, u, f)
           \/ Consume(q) /\ grant'[q] = grant[q]
<1> SUFFICES ASSUME NEW q \in Creating'
             PROVE  \/ q \in Creating /\ grant'[q] = grant[q]
                    \/ \E u \in Users, f \in Families : Login(q, u, f)
                    \/ Consume(q) /\ grant'[q] = grant[q]
  OBVIOUS
<1>0. /\ q \in Requests /\ pc'[q] = "create"
      /\ pc \in [Requests -> {"idle", "revoke", "consume", "create"}]
      /\ grant \in [Requests -> Grant \cup {None}]
  BY DEF Creating, Inv, TypeOK
<1>1. ASSUME NEW r \in Requests, End(r)
      PROVE  q \in Creating /\ grant'[q] = grant[q]
  BY <1>0, <1>1 DEF End, Creating
<1>2. ASSUME NEW r \in Requests, NEW l, NEW t, NEW g, Enter(r, l, t, g), l # "create" \/ q # r
      PROVE  q \in Creating /\ grant'[q] = grant[q]
  BY <1>0, <1>2 DEF Enter, Creating
<1>3. ASSUME NEW r \in Requests, Consume(r)
      PROVE  \/ q \in Creating /\ grant'[q] = grant[q]
             \/ Consume(q) /\ grant'[q] = grant[q]
  <2>1. CASE q = r
    BY <1>0, <1>3, <2>1 DEF Consume, Enter
  <2>2. CASE q # r
    BY <1>2, <1>3, <2>2 DEF Consume
  <2> QED
    BY <2>1, <2>2
<1>4. ASSUME NEW r \in Requests, NEW u \in Users, NEW f \in Families, Login(r, u, f)
      PROVE  \/ q \in Creating /\ grant'[q] = grant[q]
             \/ \E v \in Users, h \in Families : Login(q, v, h)
  BY <1>2, <1>4 DEF Login
<1>5. ASSUME NEW r \in Requests, NEW t \in Tokens, RotateLookup(r, t) \/ LogoutLookup(r, t)
      PROVE  q \in Creating /\ grant'[q] = grant[q]
  BY <1>2, <1>5 DEF RotateLookup, LogoutLookup
<1>6. CASE UNCHANGED <<pc, grant>>
  BY <1>0, <1>6 DEF Creating
<1> QED
  BY <1>1, <1>3, <1>4, <1>5, <1>6
  DEF Next, Continue, RevokeFamily, CreateRefresh, Fail, Expire, vars

\* How one step changes the set of stored tokens.
LEMMA StoredSteps ==
  ASSUME Inv, [Next]_vars
  PROVE  \A t \in Stored' :
           \/ t \in Stored /\ row'[t].family = row[t].family /\ row'[t].user = row[t].user
           \/ \E r \in Creating :
                CreateRefresh(r, t) /\ row'[t].family = grant[r].family
                                    /\ row'[t].user = grant[r].user
<1> SUFFICES ASSUME NEW t \in Stored', t \notin Stored
             PROVE  \E r \in Creating :
                      CreateRefresh(r, t) /\ row'[t].family = grant[r].family
                                          /\ row'[t].user = grant[r].user
  BY RowsAreKept
<1>1. PICK r \in Requests, s \in Tokens : CreateRefresh(r, s)
  <2>1. CASE UNCHANGED row
    BY <2>1 DEF Stored
  <2> QED
    BY <2>1, TableSteps, TableAfterRevokeFamily, TableAfterConsume, TableAfterExpire DEF Inv
<1>2. s = t /\ row'[t] = [family  |-> grant[r].family, user    |-> grant[r].user,
                          revoked |-> FALSE,           expired |-> FALSE]
  BY <1>1, TableAfterCreateRefresh DEF Inv
<1>3. r \in Creating
  BY <1>1 DEF CreateRefresh, Creating
<1> QED
  BY <1>1, <1>2, <1>3

\* A handler that is about to insert is alone in its family, or its family is
\* that of the row it consumed.
LEMMA CreatingGrants ==
  ASSUME Inv, FamilyHasOneUser, [Next]_vars, NEW q \in Creating'
  PROVE  /\ \A t \in Stored : row[t].family = grant'[q].family => row[t].user = grant'[q].user
         /\ \A r \in Creating :
              grant[r].family = grant'[q].family => grant[r].user = grant'[q].user
<1>1. CASE q \in Creating /\ grant'[q] = grant[q]
  BY <1>1 DEF FamilyHasOneUser
<1>2. ASSUME NEW u \in Users, NEW f \in Families, Login(q, u, f)
      PROVE  /\ \A t \in Stored : row[t].family # grant'[q].family
             /\ \A r \in Creating : grant[r].family # grant'[q].family
  <2>1. q \in Requests /\ grant \in [Requests -> Grant \cup {None}]
    BY DEF Creating, Inv, TypeOK
  <2>2. grant'[q].family = f
    BY <1>2, <2>1 DEF Login, Enter
  <2> QED
    BY <1>2, <2>2 DEF Login, InFamily, Holders
<1>3. CASE Consume(q) /\ grant'[q] = grant[q]
  <2>1. presented[q] \in Stored /\ grant[q] = GrantOf(presented[q])
    BY <1>3 DEF Inv, Carried, Consume, Creating
  <2>2. grant'[q].family = row[presented[q]].family /\ grant'[q].user = row[presented[q]].user
    BY <1>3, <2>1 DEF GrantOf
  <2> QED
    BY <2>1, <2>2 DEF FamilyHasOneUser
<1> QED
  BY <1>1, <1>2, <1>3, CreatingSteps

LEMMA OneUserNext ==
  ASSUME Inv, FamilyHasOneUser, [Next]_vars
  PROVE  FamilyHasOneUser'
<1>1. ASSUME NEW s \in Stored', NEW t \in Stored', row'[s].family = row'[t].family
      PROVE  row'[s].user = row'[t].user
  <2>1. ASSUME NEW r \in Creating, CreateRefresh(r, s),
               NEW q \in Creating, CreateRefresh(q, t)
        PROVE  s = t
    <3>1. s \notin Stored /\ t \notin Stored /\ Stored' = Stored \cup {s}
      BY <2>1, TableAfterCreateRefresh, TableTyped DEF Inv, Creating
    <3> QED
      BY <3>1
  <2> QED
    BY <1>1, <2>1, StoredSteps DEF FamilyHasOneUser
<1>2. ASSUME NEW t \in Stored', NEW q \in Creating', row'[t].family = grant'[q].family
      PROVE  row'[t].user = grant'[q].user
  BY <1>2, StoredSteps, CreatingGrants
<1>3. ASSUME NEW q \in Creating', NEW r \in Creating', grant'[q].family = grant'[r].family
      PROVE  grant'[q].user = grant'[r].user
  <2>1. CASE r \in Creating /\ grant'[r] = grant[r]
    BY <1>3, <2>1, CreatingGrants
  <2>2. CASE q \in Creating /\ grant'[q] = grant[q]
    BY <1>3, <2>2, CreatingGrants
  <2>3. CASE Consume(r) /\ grant'[r] = grant[r]
    <3>1. presented[r] \in Stored /\ grant[r] = GrantOf(presented[r])
      BY <2>3 DEF Inv, Carried, Consume, Creating
    <3> QED
      BY <1>3, <2>3, <3>1, CreatingGrants DEF GrantOf
  <2>4. CASE Consume(q) /\ grant'[q] = grant[q]
    <3>1. presented[q] \in Stored /\ grant[q] = GrantOf(presented[q])
      BY <2>4 DEF Inv, Carried, Consume, Creating
    <3> QED
      BY <1>3, <2>4, <3>1, CreatingGrants DEF GrantOf
  <2>5. ASSUME NEW u \in Users, NEW f \in Families, Login(q, u, f),
               NEW v \in Users, NEW h \in Families, Login(r, v, h)
        PROVE  q = r
    <3>1. pc[r] = "idle" /\ pc'[r] = "create"
      BY <2>5 DEF Login, Creating
    <3>2. r # q => pc'[r] = pc[r]
      BY <2>5 DEF Login, Enter, Creating, Inv, TypeOK
    <3> QED
      BY <3>1, <3>2
  <2> QED
    BY <2>1, <2>2, <2>3, <2>4, <2>5, CreatingSteps
<1> QED
  BY <1>1, <1>2, <1>3 DEF FamilyHasOneUser

\* All the tokens ever stored in a family, and all those about to be, belong to
\* one user (TokenService.rotate and createRefresh).
THEOREM OneUserPerFamily == Spec => []FamilyHasOneUser
<1>1. Init => FamilyHasOneUser
  BY DEF Init, FamilyHasOneUser, Stored, Creating
<1>2. Inv /\ FamilyHasOneUser /\ [Next]_vars => FamilyHasOneUser'
  BY OneUserNext
<1> QED
  BY <1>1, <1>2, InvInit, InvNext, PTL DEF Spec

-----------------------------------------------------------------------------
(* SingleHolder.  Unrevoked(f) and CreatingIn(f) are the two kinds of      *)
(* holders it counts.                                                      *)

Unrevoked(f) == {t \in InFamily(f) : ~row[t].revoked}
CreatingIn(f) == {r \in Creating : grant[r].family = f}
AtMostOne(f) == /\ \A s, t \in Unrevoked(f) : s = t
                /\ \A q, r \in CreatingIn(f) : q = r
                /\ Unrevoked(f) = {} \/ CreatingIn(f) = {}

LEMMA SingleHolderNext ==
  ASSUME Inv, SingleHolder, [Next]_vars
  PROVE  SingleHolder'
<1> SUFFICES ASSUME NEW f \in Families, f \notin forked'
             PROVE  AtMostOne(f)'
  BY DEF SingleHolder, AtMostOne, Unrevoked, CreatingIn
<1>1. f \notin forked
  BY DEF Next, Continue, Login, RotateLookup, LogoutLookup, RevokeFamily, Consume,
     CreateRefresh, Fail, Expire, vars
<1>2. AtMostOne(f)
  BY <1>1 DEF SingleHolder, AtMostOne, Unrevoked, CreatingIn
\* Which token can become a holder, and which handler can.
<1>3. \A t \in Unrevoked(f)' :
        \/ t \in Unrevoked(f)
        \/ \E r \in CreatingIn(f) : CreateRefresh(r, t)
  BY StoredSteps, RowsAreKept DEF Unrevoked, CreatingIn, InFamily
<1>4. \A q \in CreatingIn(f)' :
        \/ q \in CreatingIn(f)
        \/ \E u \in Users : Login(q, u, f)
        \/ Consume(q) /\ grant[q].family = f
  <2> SUFFICES ASSUME NEW q \in CreatingIn(f)', NEW u \in Users, NEW h \in Families,
                      Login(q, u, h)
               PROVE  h = f
    BY CreatingSteps DEF CreatingIn
  <2>1. q \in Requests /\ grant \in [Requests -> Grant \cup {None}] /\ grant'[q].family = f
    BY DEF CreatingIn, Creating, Inv, TypeOK
  <2> QED
    BY <2>1 DEF Login, Enter
<1>5. CASE \E r \in Requests, u \in Users : Login(r, u, f)
  <2>1. PICK r \in Requests, u \in Users : Login(r, u, f)
    BY <1>5
  <2>2. Unrevoked(f)' = {} /\ CreatingIn(f) = {}
    BY <2>1 DEF Login, Unrevoked, InFamily, Stored, CreatingIn, Holders
  <2>3. \A q \in CreatingIn(f)' : q = r
    <3>1. \A q \in Requests \ {r} : pc'[q] = pc[q] /\ grant'[q] = grant[q]
      BY <2>1 DEF Login, Enter, Inv, TypeOK
    <3> QED
      BY <2>2, <3>1 DEF CreatingIn, Creating
  <2> QED
    BY <2>2, <2>3 DEF AtMostOne
<1>6. CASE \E r \in Requests : Consume(r) /\ grant[r].family = f
  <2>1. PICK r \in Requests : Consume(r) /\ grant[r].family = f
    BY <1>6
  <2> DEFINE p == presented[r]
  <2>2. p \in Stored /\ row[p].family = f /\ pc[r] = "consume"
    <3>1. pc[r] = "consume" /\ presented[r] \in Stored /\ grant[r] = GrantOf(presented[r])
      BY <2>1 DEF Inv, Carried, Consume
    <3> QED
      BY <2>1, <3>1 DEF GrantOf
  <2>3. p \in Unrevoked(f)
    <3>1. ~row[p].revoked
      BY <2>1, <2>2, f \notin forked' DEF Consume
    <3> QED
      BY <2>2, <3>1 DEF Unrevoked, InFamily
  <2>4. Unrevoked(f) = {p} /\ CreatingIn(f) = {}
    BY <2>3, <1>2 DEF AtMostOne
  <2>5. Unrevoked(f)' = {}
    <3>1. row'[p].revoked
      <4>1. row'[p] = [row[p] EXCEPT !.revoked = TRUE]
        BY <2>1, <2>2, TableAfterConsume DEF Inv
      <4>2. row[p] \in Row
        BY <2>2 DEF Inv, TypeOK
      <4> QED
        BY <4>1, <4>2 DEF Row
    <3>2. \A q \in CreatingIn(f) : FALSE
      BY <2>4
    <3> QED
      BY <2>4, <3>1, <3>2, <1>3 DEF Unrevoked
  <2>6. \A q \in CreatingIn(f)' : q = r
    <3>1. \A q \in Requests \ {r} : pc'[q] = pc[q] /\ grant'[q] = grant[q]
      BY <2>1 DEF Consume, Enter, Inv, TypeOK
    <3> QED
      BY <2>4, <3>1 DEF CreatingIn, Creating
  <2> QED
    BY <2>5, <2>6 DEF AtMostOne
<1>7. CASE \E r \in CreatingIn(f), t \in Stored' : CreateRefresh(r, t)
  <2>1. PICK r \in CreatingIn(f), t \in Stored' : CreateRefresh(r, t)
    BY <1>7
  <2>2. CreatingIn(f) = {r} /\ Unrevoked(f) = {} /\ r \in Requests
    BY <1>2 DEF AtMostOne, CreatingIn, Creating
  <2>3. CreatingIn(f)' = {}
    <3>1. pc'[r] = "idle" /\ \A q \in Requests \ {r} : pc'[q] = pc[q] /\ grant'[q] = grant[q]
      BY <2>1, <2>2 DEF CreateRefresh, End, Inv, TypeOK
    <3> QED
      BY <2>2, <3>1 DEF CreatingIn, Creating
  <2>4. \A s \in Unrevoked(f)' : s = t
    <3>1. t \in Tokens /\ Stored' = Stored \cup {t}
      BY <2>1, TableTyped DEF CreateRefresh, Stored
    <3>2. \A s \in Unrevoked(f)' : s \notin Stored
      BY <2>2, RowsAreKept DEF Unrevoked, InFamily
    <3> QED
      BY <3>1, <3>2 DEF Unrevoked, InFamily
  <2> QED
    BY <2>3, <2>4 DEF AtMostOne
<1>8. CASE /\ ~\E r \in Requests, u \in Users : Login(r, u, f)
           /\ ~\E r \in Requests : Consume(r) /\ grant[r].family = f
           /\ ~\E r \in CreatingIn(f), t \in Stored' : CreateRefresh(r, t)
  <2>1. Unrevoked(f)' \subseteq Unrevoked(f)
    BY <1>3, <1>8 DEF Unrevoked, InFamily
  <2>2. CreatingIn(f)' \subseteq CreatingIn(f)
    BY <1>4, <1>8 DEF CreatingIn, Creating
  <2> QED
    BY <2>1, <2>2, <1>2 DEF AtMostOne
<1> QED
  BY <1>5, <1>6, <1>7, <1>8

\* Rotation hands a session over: unless a handler consumed a row that another
\* had already revoked, a family has one unrevoked token at most, counting the
\* token a handler is about to insert (TokenService.rotate).
THEOREM OneHolderPerFamily == Spec => []SingleHolder
<1>1. Init => SingleHolder
  BY DEF Init, SingleHolder, InFamily, Stored, Creating
<1>2. Inv /\ SingleHolder /\ [Next]_vars => SingleHolder'
  BY SingleHolderNext
<1> QED
  BY <1>1, <1>2, InvInit, InvNext, PTL DEF Spec

-----------------------------------------------------------------------------
(* Tokens implements SessionLife.  A step touches one family only, and     *)
(* moves the phase of that family forward or not at all.                   *)

Untouched(f) == /\ InFamily(f)' = InFamily(f)
                /\ \A t \in InFamily(f) : row'[t] = row[t]
                /\ Holders(f)' = Holders(f)

LEMMA HolderSteps ==
  ASSUME Inv, [Next]_vars, NEW f \in Families
  PROVE  \A q \in Holders(f)' :
           \/ q \in Holders(f)
           \/ \E u \in Users : Login(q, u, f)
           \/ \E t \in InFamily(f) : RotateLookup(q, t) /\ Live(t)
<1> SUFFICES ASSUME NEW q \in Holders(f)'
             PROVE  \/ q \in Holders(f)
                    \/ \E u \in Users : Login(q, u, f)
                    \/ \E t \in InFamily(f) : RotateLookup(q, t) /\ Live(t)
  OBVIOUS
<1>0. /\ q \in Requests /\ pc'[q] \in {"consume", "create"} /\ grant'[q].family = f
      /\ pc \in [Requests -> {"idle", "revoke", "consume", "create"}]
      /\ grant \in [Requests -> Grant \cup {None}]
  BY DEF Holders, Consuming, Creating, Inv, TypeOK
<1>1. ASSUME NEW r \in Requests, End(r)
      PROVE  q \in Holders(f)
  BY <1>0, <1>1 DEF End, Holders, Consuming, Creating
<1>2. ASSUME NEW r \in Requests, NEW l, NEW t, NEW g, Enter(r, l, t, g), q # r
      PROVE  q \in Holders(f)
  BY <1>0, <1>2 DEF Enter, Holders, Consuming, Creating
<1>3. ASSUME NEW r \in Requests, NEW l, NEW t, NEW g, Enter(r, l, t, g), q = r
      PROVE  l \in {"consume", "create"} /\ g.family = f
  BY <1>0, <1>3 DEF Enter
<1>4. ASSUME NEW r \in Requests, Consume(r)
      PROVE  q \in Holders(f)
  <2>1. q = r => q \in Holders(f)
    BY <1>0, <1>3, <1>4 DEF Consume, Holders, Consuming
  <2> QED
    BY <1>2, <1>4, <2>1 DEF Consume
<1>5. ASSUME NEW r \in Requests, NEW u \in Users, NEW h \in Families, Login(r, u, h)
      PROVE  q \in Holders(f) \/ \E v \in Users : Login(q, v, f)
  <2>1. q = r => h = f
    BY <1>3, <1>5 DEF Login
  <2> QED
    BY <1>2, <1>5, <2>1 DEF Login
<1>6. ASSUME NEW r \in Requests, NEW t \in Tokens, RotateLookup(r, t)
      PROVE  q \in Holders(f) \/ (t \in InFamily(f) /\ RotateLookup(q, t) /\ Live(t))
  <2>1. q = r => t \in InFamily(f) /\ Live(t)
    BY <1>3, <1>6 DEF RotateLookup, GrantOf, InFamily
  <2> QED
    BY <1>2, <1>6, <2>1 DEF RotateLookup
<1>7. ASSUME NEW r \in Requests, NEW t \in Tokens, LogoutLookup(r, t)
      PROVE  q \in Holders(f)
  BY <1>2, <1>3, <1>7 DEF LogoutLookup
<1>8. CASE UNCHANGED <<pc, grant>>
  BY <1>0, <1>8 DEF Holders, Consuming, Creating
<1> QED
  BY <1>1, <1>4, <1>5, <1>6, <1>7, <1>8
  DEF Next, Continue, RevokeFamily, CreateRefresh, Fail, Expire, vars

\* No step disturbs two families.
LEMMA OneFamilyAtATime ==
  ASSUME Inv, [Next]_vars
  PROVE  \/ \A f \in Families : Untouched(f)
         \/ \E f \in Families : \A h \in Families \ {f} : Untouched(h)
<1>0. /\ pc \in [Requests -> {"idle", "revoke", "consume", "create"}]
      /\ grant \in [Requests -> Grant \cup {None}]
      /\ \A t \in Stored : row[t] \in Row
  BY DEF Inv, TypeOK
<1>1. ASSUME NEW r \in Requests, NEW f \in Families,
             pc[r] \in {"consume", "create"} => grant[r].family = f,
             pc'[r] \in {"consume", "create"} => grant'[r].family = f,
             \A q \in Requests \ {r} : pc'[q] = pc[q] /\ grant'[q] = grant[q]
      PROVE  \A h \in Families \ {f} : Holders(h)' = Holders(h)
  BY <1>1 DEF Holders, Consuming, Creating
<1>2. ASSUME NEW f \in Families, NEW S,
             Stored' = Stored \cup S, \A t \in S \ Stored : row'[t].family = f,
             \A t \in Stored : row[t].family # f => row'[t] = row[t]
      PROVE  \A h \in Families \ {f} :
               InFamily(h)' = InFamily(h) /\ \A t \in InFamily(h) : row'[t] = row[t]
  BY <1>2, RowsAreKept DEF InFamily
<1>3. UNCHANGED row => \A h \in Families :
               InFamily(h)' = InFamily(h) /\ \A t \in InFamily(h) : row'[t] = row[t]
  BY DEF InFamily, Stored
<1>4. ASSUME NEW r \in Requests, End(r)
      PROVE  pc'[r] = "idle" /\ \A q \in Requests \ {r} : pc'[q] = pc[q] /\ grant'[q] = grant[q]
  BY <1>0, <1>4 DEF End
<1>5. ASSUME NEW r \in Requests, NEW l, NEW t, NEW g, Enter(r, l, t, g)
      PROVE  /\ pc'[r] = l /\ grant'[r] = g
             /\ \A q \in Requests \ {r} : pc'[q] = pc[q] /\ grant'[q] = grant[q]
  BY <1>0, <1>5 DEF Enter
<1>6. \A r \in Requests : pc[r] # "idle" => grant[r].family \in Families
  BY DEF Inv, Carried, Grant
<1>7. ASSUME NEW r \in Requests, NEW u \in Users, NEW f \in Families, Login(r, u, f)
      PROVE  \A h \in Families \ {f} : Untouched(h)
  <2>1. \A h \in Families \ {f} : Holders(h)' = Holders(h)
    BY <1>1, <1>5, <1>7 DEF Login
  <2> QED
    BY <1>3, <1>7, <2>1 DEF Untouched, Login
<1>8. ASSUME NEW r \in Requests, NEW t \in Tokens, RotateLookup(r, t) \/ LogoutLookup(r, t)
      PROVE  \E f \in Families : \A h \in Families \ {f} : Untouched(h)
  <2> DEFINE f == row[t].family
  <2>1. f \in Families /\ UNCHANGED row /\ pc[r] = "idle"
    BY <1>0, <1>8 DEF RotateLookup, LogoutLookup, Row
  <2>2. grant'[r].family = f /\ \A q \in Requests \ {r} : pc'[q] = pc[q] /\ grant'[q] = grant[q]
    BY <1>5, <1>8 DEF RotateLookup, LogoutLookup, GrantOf
  <2> HIDE DEF f
  <2>3. \A h \in Families \ {f} : Holders(h)' = Holders(h)
    BY <1>1, <2>1, <2>2
  <2> QED
    BY <1>3, <2>1, <2>3 DEF Untouched
<1>9. ASSUME NEW r \in Requests, RevokeFamily(r) \/ Fail(r)
      PROVE  \E f \in Families : \A h \in Families \ {f} : Untouched(h)
  <2> DEFINE f == grant[r].family
  <2>1. f \in Families /\ End(r)
    BY <1>6, <1>9 DEF RevokeFamily, Fail
  <2>2. \A h \in Families \ {f} : Holders(h)' = Holders(h)
    BY <1>1, <1>4, <2>1
  <2>3. \A h \in Families \ {f} :
          InFamily(h)' = InFamily(h) /\ \A t \in InFamily(h) : row'[t] = row[t]
    <3>1. CASE RevokeFamily(r)
      <4>1. Stored' = Stored \cup {} /\ \A t \in Stored : row[t].family # f => row'[t] = row[t]
        BY <3>1, TableAfterRevokeFamily DEF Inv
      <4> HIDE DEF f
      <4> QED
        BY <1>2, <2>1, <4>1
    <3>2. CASE Fail(r)
      BY <1>3, <3>2 DEF Fail
    <3> QED
      BY <1>9, <3>1, <3>2
  <2> QED
    BY <2>1, <2>2, <2>3 DEF Untouched
<1>10. ASSUME NEW r \in Requests, Consume(r)
       PROVE  \E f \in Families : \A h \in Families \ {f} : Untouched(h)
  <2> DEFINE f == grant[r].family
  <2>1. f \in Families /\ Enter(r, "create", None, grant[r])
    BY <1>6, <1>10 DEF Consume
  <2>2. \A h \in Families \ {f} : Holders(h)' = Holders(h)
    BY <1>1, <1>5, <2>1
  <2>3. grant[r] = GrantOf(presented[r])
    BY <1>10 DEF Inv, Carried, Consume
  <2>4. Stored' = Stored \cup {} /\ \A t \in Stored : row[t].family # f => row'[t] = row[t]
    <3>1. Stored' = Stored /\ \A t \in Stored : t # presented[r] => row'[t] = row[t]
      BY <1>10, TableAfterConsume DEF Inv
    <3> QED
      BY <2>3, <3>1 DEF GrantOf
  <2> HIDE DEF f
  <2> QED
    BY <1>2, <2>1, <2>2, <2>4 DEF Untouched
<1>11. ASSUME NEW r \in Requests, NEW t \in Tokens, CreateRefresh(r, t)
       PROVE  \E f \in Families : \A h \in Families \ {f} : Untouched(h)
  <2> DEFINE f == grant[r].family
  <2>1. f \in Families /\ End(r)
    BY <1>6, <1>11 DEF CreateRefresh
  <2>2. \A h \in Families \ {f} : Holders(h)' = Holders(h)
    BY <1>1, <1>4, <1>11, <2>1 DEF CreateRefresh
  <2>3. /\ Stored' = Stored \cup {t} /\ row'[t].family = f
        /\ \A s \in Stored : row[s].family # f => row'[s] = row[s]
    <3>1. row'[t] = [family  |-> grant[r].family, user    |-> grant[r].user,
                     revoked |-> FALSE,           expired |-> FALSE]
      BY <1>11, TableAfterCreateRefresh DEF Inv
    <3> QED
      BY <1>11, <3>1, TableAfterCreateRefresh DEF Inv
  <2> HIDE DEF f
  <2> QED
    BY <1>2, <2>1, <2>2, <2>3 DEF Untouched
<1>12. ASSUME NEW t \in Tokens, Expire(t)
       PROVE  \E f \in Families : \A h \in Families \ {f} : Untouched(h)
  <2> DEFINE f == row[t].family
  <2>1. f \in Families
    BY <1>0, <1>12 DEF Expire, Row
  <2>2. \A h \in Families : Holders(h)' = Holders(h)
    BY <1>12 DEF Expire, Holders, Consuming, Creating
  <2>3. Stored' = Stored \cup {} /\ \A s \in Stored : row[s].family # f => row'[s] = row[s]
    BY <1>12, TableAfterExpire DEF Inv
  <2> HIDE DEF f
  <2> QED
    BY <1>2, <2>1, <2>2, <2>3 DEF Untouched
<1>13. CASE UNCHANGED vars
  BY <1>3, <1>13 DEF vars, Untouched, Holders, Consuming, Creating
<1> QED
  BY <1>7, <1>8, <1>9, <1>10, <1>11, <1>12, <1>13 DEF Next, Continue

LEMMA OverStaysOver ==
  ASSUME Inv, [Next]_vars, NEW f \in Families, InFamily(f) # {}, ~Active(f)
  PROVE  ~Active(f)'
<1>1. Holders(f) = {} /\ \A t \in InFamily(f) : ~Live(t)
  BY DEF Active
<1>2. Holders(f)' = {}
  BY <1>1, HolderSteps DEF Login
<1>3. ASSUME NEW t \in InFamily(f)'
      PROVE  ~Live(t)'
  <2>1. \A r \in Creating : grant[r].family # f
    BY <1>1 DEF Holders
  <2>2. t \in InFamily(f)
    BY <2>1, StoredSteps DEF InFamily
  <2> QED
    BY <1>1, <2>2, RowsAreKept DEF Live, InFamily
<1> QED
  BY <1>2, <1>3 DEF Active

LEMMA FirstTokenIsLive ==
  ASSUME Inv, [Next]_vars, NEW f \in Families, InFamily(f) = {}, InFamily(f)' # {}
  PROVE  Active(f)'
<1>1. PICK t \in InFamily(f)' : TRUE
  OBVIOUS
<1>2. PICK r \in Creating : CreateRefresh(r, t)
  BY <1>1, StoredSteps DEF InFamily
<1>3. t \in Tokens
  BY <1>1, TableTyped DEF InFamily
<1>4. row'[t] = [family  |-> grant[r].family, user    |-> grant[r].user,
                 revoked |-> FALSE,           expired |-> FALSE]
  BY <1>2, <1>3, TableAfterCreateRefresh DEF Inv, Creating
<1> QED
  BY <1>1, <1>4 DEF Active, Live

LEMMA OwnerIsKept ==
  ASSUME Inv, [Next]_vars, FamilyHasOneUser', NEW f \in Families, InFamily(f) # {}
  PROVE  InFamily(f)' # {} /\ LifeOwner'[f] = LifeOwner[f]
<1> DEFINE a == CHOOSE t \in InFamily(f) : TRUE
           b == CHOOSE t \in InFamily(f)' : TRUE
<1>1. a \in InFamily(f)
  OBVIOUS
<1>2. a \in InFamily(f)' /\ row'[a].user = row[a].user
  BY <1>1, RowsAreKept DEF InFamily
<1>3. b \in InFamily(f)'
  BY <1>2
<1>4. row'[b].user = row'[a].user
  BY <1>2, <1>3 DEF FamilyHasOneUser, InFamily
<1> QED
  BY <1>2, <1>4 DEF LifeOwner

LEMMA LifeStep ==
  ASSUME Inv, Inv', FamilyHasOneUser', [Next]_vars
  PROVE  [Life!LifeNext]_(Life!lifeVars)
<1>1. ASSUME NEW f \in Families, Untouched(f)
      PROVE  LifePhase'[f] = LifePhase[f] /\ LifeOwner'[f] = LifeOwner[f]
  <2>1. Active(f)' <=> Active(f)
    BY <1>1 DEF Untouched, Active, Live
  <2>2. LifePhase'[f] = LifePhase[f]
    BY <1>1, <2>1 DEF Untouched, LifePhase
  <2>3. LifeOwner'[f] = LifeOwner[f]
    <3>1. CASE InFamily(f) = {}
      BY <1>1, <3>1 DEF Untouched, LifeOwner
    <3>2. CASE InFamily(f) # {}
      BY <3>2, OwnerIsKept
    <3> QED
      BY <3>1, <3>2
  <2> QED
    BY <2>2, <2>3
<1>2. CASE \A f \in Families : Untouched(f)
  BY <1>1, <1>2 DEF LifePhase, LifeOwner, Life!lifeVars
<1>3. ASSUME NEW f \in Families, \A h \in Families \ {f} : Untouched(h)
      PROVE  [Life!LifeNext]_(Life!lifeVars)
  <2>1. \A h \in Families \ {f} : LifePhase'[h] = LifePhase[h] /\ LifeOwner'[h] = LifeOwner[h]
    BY <1>1, <1>3
  <2>2. ASSUME LifePhase'[f] = LifePhase[f], LifeOwner'[f] = LifeOwner[f]
        PROVE  UNCHANGED Life!lifeVars
    BY <2>1, <2>2 DEF LifePhase, LifeOwner, Life!lifeVars
  <2>3. CASE InFamily(f) # {} /\ Active(f)
    <3>1. InFamily(f)' # {} /\ LifeOwner'[f] = LifeOwner[f]
      BY <2>3, OwnerIsKept
    <3>2. LifePhase[f] = "active" /\ LifePhase'[f] \in {"active", "over"}
      BY <2>3, <3>1 DEF LifePhase
    <3>3. CASE LifePhase'[f] = "over"
      <4>1. LifePhase' = [LifePhase EXCEPT ![f] = "over"]
        BY <2>1, <3>3 DEF LifePhase
      <4>2. LifeOwner' = LifeOwner
        BY <2>1, <3>1 DEF LifeOwner
      <4> QED
        BY <3>2, <4>1, <4>2 DEF Life!LifeNext, Life!Finish
    <3> QED
      BY <2>2, <3>1, <3>2, <3>3
  <2>4. CASE InFamily(f) # {} /\ ~Active(f)
    <3>1. InFamily(f)' # {} /\ LifeOwner'[f] = LifeOwner[f]
      BY <2>4, OwnerIsKept
    <3>2. LifePhase'[f] = LifePhase[f]
      BY <2>4, <3>1, OverStaysOver DEF LifePhase
    <3> QED
      BY <2>2, <3>1, <3>2
  <2>5. CASE InFamily(f) = {} /\ InFamily(f)' = {}
    BY <2>2, <2>5 DEF LifePhase, LifeOwner
  <2>6. CASE InFamily(f) = {} /\ InFamily(f)' # {}
    <3> DEFINE u == LifeOwner'[f]
    <3>1. u \in Users
      <4> DEFINE b == CHOOSE t \in InFamily(f)' : TRUE
      <4>1. b \in Stored'
        BY <2>6 DEF InFamily
      <4>2. row'[b].user \in Users
        BY <4>1 DEF Inv, TypeOK, Row
      <4> QED
        BY <2>6, <4>2 DEF LifeOwner
    <3>2. LifePhase[f] = "unused" /\ LifePhase'[f] = "active"
      BY <2>6, FirstTokenIsLive DEF LifePhase
    <3>3. LifePhase' = [LifePhase EXCEPT ![f] = "active"]
      BY <2>1, <3>2 DEF LifePhase
    <3>4. LifeOwner' = [LifeOwner EXCEPT ![f] = u]
      <4>1. /\ LifeOwner = [h \in Families |-> LifeOwner[h]]
            /\ LifeOwner' = [h \in Families |-> LifeOwner'[h]]
        BY DEF LifeOwner
      <4> QED
        BY <2>1, <4>1
    <3> QED
      BY <3>1, <3>2, <3>3, <3>4 DEF Life!LifeNext, Life!Begin
  <2> QED
    BY <2>3, <2>4, <2>5, <2>6
<1> QED
  BY <1>2, <1>3, OneFamilyAtATime

\* The token store implements SessionLife: a family begins once, for one user,
\* and once it is over no later request makes it live again.
THEOREM ImplementsSessionLife == Spec => SessionNeverReturns
<1>1. Init => Life!LifeInit
  BY DEF Init, Life!LifeInit, LifePhase, LifeOwner, InFamily, Stored
<1>2. Inv /\ Inv' /\ FamilyHasOneUser' /\ [Next]_vars => [Life!LifeNext]_(Life!lifeVars)
  BY LifeStep
<1>3. Spec => []Inv
  BY InvInit, InvNext, PTL DEF Spec
<1> QED
  BY <1>1, <1>2, <1>3, OneUserPerFamily, PTL DEF Spec, SessionNeverReturns, Life!LifeSpec
=============================================================================
