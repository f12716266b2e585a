--------------------------- MODULE MembersProofs ---------------------------
(***************************************************************************)
(* The theorems about Members, for any number of users and of overlapping, *)
(* expiring and dying requests.                                            *)
(*                                                                         *)
(* The inductive invariant says where in its handler each request is and   *)
(* what it may still assume of the row it has read (RequestOK), that one   *)
(* transaction at most holds a membership (OneHolder), that the tokens one *)
(* can have read are of invitations that have committed (LinkOK), and that *)
(* a used link is spent.  As in IssuesProofs, the steps that change no     *)
(* table are Quiet, and a quiet step keeps the invariant.                  *)
(***************************************************************************)
EXTENDS Members, TLAPS

Below == Role \ {"OWNER"}

Call == [op : {"add", "invite", "update", "remove", "accept"}, actor : Users, who : Users,
         role : Below \cup {None}, token : Requests \cup {None}, tell : Users \cup {None},
         row : MemberRow \cup {None}]

\* The statements of each operation, from the first to the last.
Labels(op) ==
  CASE op = "add"    -> {"lookup", "select", "write", "audit", "notify", "commit", "done"}
    [] op = "invite" -> {"invite", "mail", "audit", "commit", "done"}
    [] op = "accept" -> {"select", "write", "burn", "commit", "audit", "notify", "done"}
    [] OTHER         -> {"target", "write", "audit", "commit", "done"}

Changes(r) == call[r].op \in {"update", "remove"}

\* What a request that has started may rely on.
StartedOK(r) ==
  /\ call[r] \in Call /\ pc[r] \in Labels(call[r].op)
  /\ call[r].op # "remove" => call[r].role \in Below
  /\ tx[r] = "committed" =>
       pc[r] = "done" \/ (call[r].op = "accept" /\ pc[r] \in {"audit", "notify"})
  /\ tx[r] = "open" => pc[r] \notin {"lookup", "target", "done"}
                       /\ (call[r].op = "accept" => pc[r] \notin {"audit", "notify"})
  /\ Changes(r) /\ pc[r] \in {"write", "audit", "commit"} =>
       /\ call[r].row \in MemberRow
       /\ call[r].who \in DOMAIN member /\ member[call[r].who].id = call[r].row.id
            => member[call[r].who].role # "OWNER"
  /\ Changes(r) /\ HoldsMember(r, call[r].who) =>
       call[r].who \in DOMAIN member /\ member[call[r].who].id = call[r].row.id

RequestOK(r) ==
  /\ tx[r] \in {"none", "open", "committed", "aborted"}
  /\ pc[r] = "new" => tx[r] = "none"
  /\ pc[r] # "new" => StartedOK(r)

TablesOK ==
  /\ DOMAIN member \subseteq Users /\ \A u \in DOMAIN member : member[u] \in MemberRow
  /\ DOMAIN invite \subseteq Users /\ \A e \in DOMAIN invite : invite[e] \in InviteRow

OutsideOK ==
  /\ registered \subseteq Users /\ mailed \subseteq Requests /\ audited \subseteq Requests
  /\ jobs \subseteq [from : Requests, to : Users]

\* Nobody has read a token whose invitation has not committed.
Known(t) == t = None \/ tx[t] = "committed"
LinkOK ==
  /\ \A e \in DOMAIN invite : Known(invite[e].token)
  /\ \A r \in Requests : pc[r] # "new" /\ call[r].op = "accept" =>
       call[r].who \in DOMAIN invite /\ Known(call[r].token)

OneHolder ==
  \A q, r \in Requests, u \in Users : HoldsMember(q, u) /\ HoldsMember(r, u) => q = r

Domains == DOMAIN pc = Requests /\ DOMAIN tx = Requests /\ DOMAIN call = Requests

IInv ==
  /\ Domains /\ TablesOK /\ OutsideOK /\ LinkOK /\ OneHolder /\ UsedLinkIsSpent
  /\ \A r \in Requests : RequestOK(r)

-----------------------------------------------------------------------------
(* Quiet steps.                                                            *)

Same(q) == pc'[q] = pc[q] /\ tx'[q] = tx[q] /\ call'[q] = call[q]

Quiet(r) ==
  /\ member' = member /\ invite' = invite
  /\ \A q \in Requests \ {r} : Same(q)
  /\ Domains' /\ OutsideOK' /\ RequestOK(r)'
  /\ tx'[r] = "committed" <=> tx[r] = "committed"
  /\ tx[r] = "committed" => call'[r] = call[r]
  /\ pc'[r] # "new" /\ call'[r].op = "accept" =>
       call'[r].who \in DOMAIN invite /\ Known(call'[r].token)
  /\ \A u \in Users : HoldsMember(r, u)' =>
       HoldsMember(r, u) \/ \A q \in Requests : ~HoldsMember(q, u)

\* What a request relies on stays true while another one takes a quiet step.
LEMMA Frame ==
  ASSUME NEW q \in Requests, Same(q), member' = member
  PROVE  /\ RequestOK(q)' <=> RequestOK(q)
         /\ \A u : HoldsMember(q, u)' <=> HoldsMember(q, u)
BY DEF Same, RequestOK, StartedOK, Changes, HoldsMember

LEMMA QuietKeepsInv ==
  ASSUME MembersAssumption, IInv, NEW r \in Requests, Quiet(r)
  PROVE  IInv'
<1>1. \A q \in Requests \ {r} : Same(q) /\ (RequestOK(q)' <=> RequestOK(q))
         /\ \A u : HoldsMember(q, u)' <=> HoldsMember(q, u)
  BY Frame DEF Quiet
<1>2. Domains' /\ OutsideOK' /\ \A q \in Requests : RequestOK(q)'
  BY <1>1 DEF Quiet, IInv
<1>3. TablesOK'
  BY DEF Quiet, IInv, TablesOK
<1>4. \A q \in Requests : tx'[q] = "committed" <=> tx[q] = "committed"
  BY <1>1 DEF Quiet, Same
<1>5. LinkOK'
  <2>1. \A e \in DOMAIN invite : invite[e].token \in Requests \cup {None}
    BY DEF IInv, TablesOK, InviteRow
  <2>2. \A e \in DOMAIN invite' : Known(invite[e].token)'
    BY <1>4, <2>1 DEF Quiet, IInv, LinkOK, Known
  <2>3. ASSUME NEW q \in Requests, pc'[q] # "new", call'[q].op = "accept"
        PROVE  call'[q].who \in DOMAIN invite' /\ Known(call[q].token)'
    <3>1. call'[q].who \in DOMAIN invite /\ Known(call'[q].token)
      BY <1>1, <2>3 DEF Quiet, Same, IInv, LinkOK
    <3>2. call'[q] \in Call
      BY <1>2, <2>3 DEF RequestOK, StartedOK, Call, MemberRow
    <3>3. call'[q].token \in Requests \cup {None}
      BY <3>2 DEF Call
    <3> QED
      BY <1>4, <3>1, <3>3 DEF Quiet, Known
  <2> QED
    BY <2>2, <2>3 DEF LinkOK
<1>6. OneHolder'
  <2> SUFFICES ASSUME NEW p \in Requests, NEW q \in Requests, NEW u \in Users,
                      HoldsMember(p, u)', HoldsMember(q, u)', p # q
               PROVE  FALSE
    BY DEF OneHolder
  <2>1. CASE p # r /\ q # r
    BY <1>1, <2>1 DEF OneHolder, IInv
  <2>2. CASE p = r
    BY <1>1, <2>2 DEF OneHolder, IInv, Quiet
  <2>3. CASE q = r
    BY <1>1, <2>3 DEF OneHolder, IInv, Quiet
  <2> QED
    BY <2>1, <2>2, <2>3
<1>7. UsedLinkIsSpent'
  <2>1. \A q \in Requests : tx'[q] = "committed" => tx[q] = "committed" /\ call'[q] = call[q]
    BY <1>1, <1>4 DEF Quiet, Same
  <2>2. invite' = invite
    BY DEF Quiet
  <2> QED
    BY <2>1, <2>2 DEF UsedLinkIsSpent, IInv
<1> QED
  BY <1>2, <1>3, <1>5, <1>6, <1>7 DEF IInv

\* A request that starts.
LEMMA EnterIsQuiet ==
  ASSUME IInv, NEW r \in Requests, NEW label \in {"lookup", "target", "select"}, NEW c \in Call,
         Enter(r, label, c), label \in Labels(c.op),
         c.op # "remove" => c.role \in Below,
         c.op = "accept" => c.who \in DOMAIN invite /\ Known(c.token)
  PROVE  Quiet(r)
<1>1. /\ pc[r] = "new" /\ pc' = [pc EXCEPT ![r] = label] /\ call' = [call EXCEPT ![r] = c]
      /\ UNCHANGED <<registered, member, invite, mailed, audited, jobs, tx>>
  BY DEF Enter, Goto, tables, outside
<1>2. Domains /\ OutsideOK /\ tx[r] = "none"
  BY <1>1 DEF IInv, RequestOK
<1>3. /\ pc'[r] = label /\ call'[r] = c /\ tx'[r] = "none" /\ Domains'
      /\ \A q \in Requests \ {r} : Same(q)
  BY <1>1, <1>2 DEF Domains, Same
<1>4. \A u : ~HoldsMember(r, u)'
  BY <1>3 DEF HoldsMember
<1>5. RequestOK(r)'
  BY <1>3, <1>4 DEF RequestOK, StartedOK, Changes
<1>6. OutsideOK'
  BY <1>1, <1>2 DEF OutsideOK
<1> QED
  BY <1>1, <1>2, <1>3, <1>4, <1>5, <1>6 DEF Quiet

LEMMA AdmitIsQuiet ==
  ASSUME MembersAssumption, IInv, NEW r \in Requests, NEW a \in Users, NEW u \in Users,
         NEW op \in {"add", "update", "remove"}, NEW role,
         role \in Grantable \/ (op = "remove" /\ role = None), Admit(r, a, op, u, role)
  PROVE  Quiet(r)
<1> DEFINE c == [op |-> op, actor |-> a, who |-> u, role |-> role, token |-> None,
                 tell |-> None, row |-> None]
           label == IF op = "add" THEN "lookup" ELSE "target"
<1>1. Enter(r, label, c)
  BY DEF Admit
<1>2. Grantable \subseteq Below
  BY DEF MembersAssumption, Grantable, Below
<1>3. c \in Call /\ c.op = op /\ c.role = role
  BY <1>2 DEF Call
<1>4. label \in {"lookup", "target", "select"} /\ label \in Labels(op)
  BY DEF Labels
<1> HIDE DEF c, label
<1> QED
  BY <1>1, <1>2, <1>3, <1>4, EnterIsQuiet

LEMMA ReadInviteIsQuiet ==
  ASSUME IInv, NEW r \in Requests, NEW u \in Users, ReadInvite(r, u)
  PROVE  Quiet(r)
<1> DEFINE c == [op |-> "accept", actor |-> u, who |-> u, role |-> invite[u].role,
                 token |-> invite[u].token, tell |-> invite[u].by, row |-> None]
<1>1. Enter(r, "select", c) /\ u \in DOMAIN invite
  BY DEF ReadInvite
<1>2. invite[u] \in InviteRow /\ Known(invite[u].token)
  BY <1>1 DEF IInv, TablesOK, LinkOK
<1>3. c \in Call /\ c.op = "accept" /\ c.who = u /\ c.token = invite[u].token /\ c.role \in Below
  BY <1>2 DEF Call, InviteRow, Below
<1>4. "select" \in Labels("accept")
  BY DEF Labels
<1> HIDE DEF c
<1> QED
  BY <1>1, <1>2, <1>3, <1>4, EnterIsQuiet

\* A request that goes on.
LEMMA AdvanceIsQuiet ==
  ASSUME IInv, NEW r \in Requests, member' = member, invite' = invite, pc[r] # "new",
         \A q \in Requests \ {r} : Same(q), Domains', OutsideOK', StartedOK(r)',
         tx'[r] \in {"none", "open", "committed", "aborted"},
         tx'[r] = "committed" <=> tx[r] = "committed",
         \/ call'[r] = call[r]
         \/ /\ tx[r] # "committed" /\ call'[r].who = call[r].who
            /\ call'[r].token = call[r].token
            /\ call'[r].op = "accept" => call[r].op = "accept",
         \A u \in Users : HoldsMember(r, u)' =>
           HoldsMember(r, u) \/ \A q \in Requests : ~HoldsMember(q, u)
  PROVE  Quiet(r)
<1>1. pc'[r] # "new"
  BY DEF StartedOK, Labels
<1>2. RequestOK(r)'
  BY <1>1 DEF RequestOK
<1>3. call'[r].op = "accept" => call'[r].who \in DOMAIN invite /\ Known(call'[r].token)
  BY DEF IInv, LinkOK
<1>4. tx[r] = "committed" => call'[r] = call[r]
  OBVIOUS
<1> QED
  BY <1>2, <1>3, <1>4 DEF Quiet

\* The facts about a running request that the steps below use.
LEMMA Started ==
  ASSUME IInv, NEW r \in Requests, pc[r] # "new"
  PROVE  /\ Domains /\ OutsideOK /\ StartedOK(r) /\ call[r] \in Call
         /\ pc[r] \in Labels(call[r].op)
         /\ tx[r] \in {"none", "open", "committed", "aborted"}
         /\ call[r].who \in Users
         /\ call[r].op \in {"add", "invite", "update", "remove", "accept"}
BY DEF IInv, RequestOK, StartedOK, Call

LEMMA RowOfMember ==
  ASSUME IInv, NEW u
  PROVE  RowOf(u) \in MemberRow \cup {None}
BY DEF IInv, TablesOK, RowOf

LEMMA LookUpUserIsQuiet ==
  ASSUME IInv, NEW r \in Requests, LookUpUser(r)
  PROVE  Quiet(r)
<1>1. pc[r] = "lookup" /\ tx[r] = "none" /\ tx' = [tx EXCEPT ![r] = "open"]
      /\ UNCHANGED <<registered, member, invite, mailed, audited, jobs>>
  BY DEF LookUpUser, Begin, tables, outside
<1>2. Domains /\ OutsideOK' /\ StartedOK(r) /\ call[r] \in Call /\ call[r].op = "add"
      /\ call[r].role \in Below
  BY <1>1, Started DEF OutsideOK, Labels, StartedOK
<1>3. PICK label, c :
        /\ pc' = [pc EXCEPT ![r] = label] /\ call' = [call EXCEPT ![r] = c]
        /\ c \in Call /\ c.who = call[r].who /\ c.token = call[r].token /\ c.role = call[r].role
        /\ \/ label = "select" /\ c.op = "add"
           \/ label = "invite" /\ c.op = "invite"
  <2>1. CASE call[r].who \in registered
    <3>1. [call[r] EXCEPT !.tell = call[r].who] \in Call
      BY <1>2 DEF Call
    <3> QED
      BY <1>2, <2>1, <3>1 DEF LookUpUser, Goto, Call
  <2>2. CASE call[r].who \notin registered
    <3>1. [call[r] EXCEPT !.op = "invite"] \in Call
      BY <1>2 DEF Call
    <3> QED
      BY <1>2, <2>2, <3>1 DEF LookUpUser, Goto, Call
  <2> QED
    BY <2>1, <2>2
<1>4. pc'[r] = label /\ tx'[r] = "open" /\ call'[r] = c /\ Domains'
      /\ \A q \in Requests \ {r} : Same(q)
  BY <1>1, <1>2, <1>3 DEF Domains, Same
<1>5. \A u : ~HoldsMember(r, u)'
  BY <1>3, <1>4 DEF HoldsMember
<1>6. StartedOK(r)'
  BY <1>2, <1>3, <1>4, <1>5 DEF StartedOK, Labels, Changes
<1> QED
  BY <1>1, <1>2, <1>3, <1>4, <1>5, <1>6, AdvanceIsQuiet

\* A handler that throws, whether it must or because it dies.
LEMMA ThrowIsQuiet ==
  ASSUME IInv, NEW r \in Requests, pc[r] # "new", Throw(r),
         UNCHANGED <<registered, member, invite, mailed, audited, jobs, call>>
  PROVE  Quiet(r)
<1>1. Domains /\ OutsideOK' /\ StartedOK(r) /\ call[r] \in Call
      /\ tx[r] \in {"none", "open", "committed", "aborted"}
  BY Started DEF OutsideOK
<1>2. /\ pc'[r] = "done" /\ tx'[r] = (IF tx[r] = "committed" THEN tx[r] ELSE "aborted")
      /\ call'[r] = call[r] /\ Domains' /\ \A q \in Requests \ {r} : Same(q)
  BY <1>1 DEF Throw, Goto, Domains, Same
<1>3. tx'[r] \in {"committed", "aborted"} /\ (tx'[r] = "committed" <=> tx[r] = "committed")
  BY <1>2
<1>4. \A u : ~HoldsMember(r, u)'
  BY <1>3 DEF HoldsMember
<1>5. "done" \in Labels(call[r].op)
  BY <1>1 DEF Labels, Call
<1>6. StartedOK(r)'
  BY <1>1, <1>2, <1>3, <1>4, <1>5 DEF StartedOK, Changes
<1> QED
  BY <1>1, <1>2, <1>3, <1>4, <1>6, AdvanceIsQuiet

LEMMA ReadTargetIsQuiet ==
  ASSUME MembersAssumption, IInv, NEW r \in Requests, ReadTarget(r)
  PROVE  Quiet(r)
<1> DEFINE row == RowOf(call[r].who)
           c == [call[r] EXCEPT !.row = row]
<1>1. pc[r] = "target" /\ tx[r] = "none"
      /\ UNCHANGED <<registered, member, invite, mailed, audited, jobs>>
  BY DEF ReadTarget, tables, outside
<1>2. CASE row = None \/ row.role = "OWNER"
  <2>1. Throw(r) /\ call' = call
    BY <1>2 DEF ReadTarget
  <2> QED
    BY <1>1, <2>1, ThrowIsQuiet
<1>3. CASE ~(row = None \/ row.role = "OWNER")
  <2>1. Domains /\ OutsideOK' /\ StartedOK(r) /\ call[r] \in Call
        /\ call[r].op \in {"update", "remove"}
    BY <1>1, Started DEF OutsideOK, Labels
  <2>2. pc' = [pc EXCEPT ![r] = "write"] /\ tx' = [tx EXCEPT ![r] = "open"]
        /\ call' = [call EXCEPT ![r] = c]
    BY <1>3, <2>1 DEF ReadTarget, Begin, Goto, Call
  <2>3. row \in MemberRow /\ row.role # "OWNER"
    BY <1>3, RowOfMember
  <2>4. call[r].who \in DOMAIN member => row = member[call[r].who]
    BY DEF RowOf
  <2>5. c \in Call /\ c.op = call[r].op /\ c.who = call[r].who /\ c.token = call[r].token
        /\ c.role = call[r].role /\ c.row = row
    BY <2>1, <2>3 DEF Call
  <2> HIDE DEF c, row
  <2>6. pc'[r] = "write" /\ tx'[r] = "open" /\ call'[r] = c /\ Domains'
        /\ \A q \in Requests \ {r} : Same(q)
    BY <2>1, <2>2 DEF Domains, Same
  <2>7. \A u : ~HoldsMember(r, u)'
    BY <2>6 DEF HoldsMember
  <2>8. StartedOK(r)'
    BY <1>1, <2>1, <2>3, <2>4, <2>5, <2>6, <2>7 DEF StartedOK, Changes, Labels
  <2> QED
    BY <1>1, <2>1, <2>5, <2>6, <2>7, <2>8, AdvanceIsQuiet
<1> QED
  BY <1>2, <1>3

LEMMA SelectMemberIsQuiet ==
  ASSUME IInv, NEW r \in Requests, SelectMember(r)
  PROVE  Quiet(r)
<1> DEFINE row == RowOf(call[r].who)
           c == [call[r] EXCEPT !.row = row]
<1>1. pc[r] = "select" /\ tx[r] # "aborted"
      /\ UNCHANGED <<registered, member, invite, mailed, audited, jobs>>
  BY DEF SelectMember, tables, outside
<1>2. Domains /\ OutsideOK' /\ StartedOK(r) /\ call[r] \in Call
      /\ call[r].op \in {"add", "accept"} /\ tx[r] # "committed"
  BY <1>1, Started DEF OutsideOK, Labels, StartedOK
<1>3. pc' = [pc EXCEPT ![r] = "write"] /\ tx' = [tx EXCEPT ![r] = "open"]
      /\ call' = [call EXCEPT ![r] = c]
  BY <1>2 DEF SelectMember, Begin, Goto, Call
<1>4. c \in Call /\ c.op = call[r].op /\ c.who = call[r].who /\ c.token = call[r].token
      /\ c.role = call[r].role
  BY <1>2, RowOfMember DEF Call
<1> HIDE DEF c, row
<1>5. pc'[r] = "write" /\ tx'[r] = "open" /\ call'[r] = c /\ Domains'
      /\ \A q \in Requests \ {r} : Same(q)
  BY <1>2, <1>3 DEF Domains, Same
<1>6. \A u : ~HoldsMember(r, u)'
  BY <1>5 DEF HoldsMember
<1>7. StartedOK(r)'
  BY <1>1, <1>2, <1>4, <1>5, <1>6 DEF StartedOK, Changes, Labels
<1> QED
  BY <1>1, <1>2, <1>4, <1>5, <1>6, <1>7, AdvanceIsQuiet

LEMMA WriteMemberIsQuiet ==
  ASSUME MembersAssumption, IInv, NEW r \in Requests, WriteMember(r)
  PROVE  Quiet(r)
<1> DEFINE free == IF call[r].row = None THEN call[r].who \notin DOMAIN member ELSE RowStands(r)
<1>1. pc[r] = "write" /\ tx[r] = "open" /\ \A q \in Requests : ~HoldsMember(q, call[r].who)
      /\ UNCHANGED <<registered, member, invite, mailed, audited, jobs, call>>
  BY DEF WriteMember, tables, outside
<1>2. CASE ~free
  <2>1. Throw(r)
    BY <1>2 DEF WriteMember
  <2> QED
    BY <1>1, <2>1, ThrowIsQuiet
<1>3. CASE free
  <2> DEFINE label == IF call[r].op = "accept" THEN "burn" ELSE "audit"
  <2>1. Domains /\ OutsideOK' /\ StartedOK(r) /\ call[r] \in Call
        /\ call[r].op \in {"add", "update", "remove", "accept"}
    BY <1>1, Started DEF OutsideOK, Labels
  <2>2. pc' = [pc EXCEPT ![r] = label] /\ tx' = tx
    BY <1>3 DEF WriteMember, Goto
  <2>3. label \in Labels(call[r].op) \cap {"burn", "audit"} /\ (Changes(r) => label = "audit")
        /\ (call[r].op = "accept" => label = "burn")
    BY <2>1 DEF Labels, Changes
  <2> HIDE DEF label
  <2>4. pc'[r] = label /\ tx'[r] = "open" /\ call'[r] = call[r] /\ Domains'
        /\ \A q \in Requests \ {r} : Same(q)
    BY <1>1, <2>1, <2>2 DEF Domains, Same
  <2>5. Changes(r) => call[r].row \in MemberRow
    BY <1>1, <2>1 DEF StartedOK
  <2>6. Changes(r) => RowStands(r)
    BY <1>3, <2>5 DEF MembersAssumption
  <2>7. \A u : HoldsMember(r, u)' => u = call[r].who
    BY <2>4 DEF HoldsMember
  <2>8. StartedOK(r)'
    BY <1>1, <2>1, <2>3, <2>4, <2>5, <2>6 DEF StartedOK, Changes, RowStands
  <2> QED
    BY <1>1, <2>1, <2>4, <2>7, <2>8, AdvanceIsQuiet
<1> QED
  BY <1>2, <1>3

\* The steps that leave the transaction and the call of r as they are: r holds
\* no membership by them that it did not hold before.
LEMMA StepIsQuiet ==
  ASSUME IInv, NEW r \in Requests, pc[r] # "new", NEW label \in Labels(call[r].op), Goto(r, label),
         OutsideOK', UNCHANGED <<member, invite, tx, call>>,
         pc[r] \notin {"lookup", "target", "select", "write", "done"},
         tx[r] = "committed" => label = "done" \/ (call[r].op = "accept" /\ label \in {"audit", "notify"}),
         tx[r] = "open" => label \notin {"lookup", "target", "done"}
                            /\ (call[r].op = "accept" => label \notin {"audit", "notify"}),
         label = "write" => call[r].op \notin {"update", "remove"}
  PROVE  Quiet(r)
<1>1. Domains /\ StartedOK(r) /\ call[r] \in Call /\ pc[r] \in Labels(call[r].op)
      /\ tx[r] \in {"none", "open", "committed", "aborted"}
  BY Started
<1>2. /\ pc'[r] = label /\ tx'[r] = tx[r] /\ call'[r] = call[r] /\ Domains'
      /\ \A q \in Requests \ {r} : Same(q)
  BY <1>1 DEF Domains, Same, Goto
<1>3. \A u : HoldsMember(r, u)' => HoldsMember(r, u)
  BY <1>2 DEF HoldsMember
<1>4. Changes(r) => pc[r] \in {"audit", "commit"}
  BY <1>1 DEF Labels, Changes
<1>5. StartedOK(r)'
  BY <1>1, <1>2, <1>3, <1>4 DEF StartedOK, Changes
<1> QED
  BY <1>1, <1>2, <1>3, <1>5, AdvanceIsQuiet

LEMMA BurnInviteIsQuiet ==
  ASSUME IInv, NEW r \in Requests, BurnInvite(r)
  PROVE  Quiet(r)
<1>1. pc[r] = "burn" /\ tx[r] = "open" /\ Goto(r, "commit")
      /\ UNCHANGED <<registered, member, invite, mailed, audited, jobs, tx, call>>
  BY DEF BurnInvite, tables, outside
<1>2. "commit" \in Labels(call[r].op) /\ OutsideOK'
  BY <1>1, Started DEF Labels, OutsideOK
<1> QED
  BY <1>1, <1>2, StepIsQuiet

LEMMA UpsertInviteIsQuiet ==
  ASSUME IInv, NEW r \in Requests, UpsertInvite(r)
  PROVE  Quiet(r)
<1>1. pc[r] = "invite" /\ tx[r] = "open" /\ Goto(r, "mail")
      /\ UNCHANGED <<registered, member, invite, mailed, audited, jobs, tx, call>>
  BY DEF UpsertInvite, tables, outside
<1>2. "mail" \in Labels(call[r].op) /\ OutsideOK'
  BY <1>1, Started DEF Labels, OutsideOK
<1> QED
  BY <1>1, <1>2, StepIsQuiet

LEMMA MailIsQuiet ==
  ASSUME IInv, NEW r \in Requests, Mail(r)
  PROVE  Quiet(r)
<1>1. pc[r] = "mail" /\ Goto(r, "audit") /\ mailed' \subseteq mailed \cup {r}
      /\ UNCHANGED <<registered, member, invite, audited, jobs, tx, call>>
  BY DEF Mail, tables
<1>2. "audit" \in Labels(call[r].op) /\ OutsideOK' /\ tx[r] # "committed"
      /\ call[r].op = "invite"
  BY <1>1, Started DEF Labels, OutsideOK, StartedOK
<1> QED
  BY <1>1, <1>2, StepIsQuiet

LEMMA AuditIsQuiet ==
  ASSUME IInv, NEW r \in Requests, Audit(r)
  PROVE  Quiet(r)
<1> DEFINE label == IF call[r].op \in {"add", "accept"} THEN "notify" ELSE "commit"
<1>1. pc[r] = "audit" /\ Goto(r, label) /\ audited' \subseteq audited \cup {r}
      /\ UNCHANGED <<registered, member, invite, mailed, jobs, tx, call>>
  BY DEF Audit, tables
<1>2. label \in Labels(call[r].op) /\ OutsideOK' /\ (tx[r] = "committed" => call[r].op = "accept")
      /\ (call[r].op = "accept" => tx[r] # "open")
  BY <1>1, Started DEF Labels, OutsideOK, StartedOK
<1> QED
  BY <1>1, <1>2, StepIsQuiet

LEMMA NotifyIsQuiet ==
  ASSUME IInv, NEW r \in Requests, Notify(r)
  PROVE  Quiet(r)
<1> DEFINE label == IF call[r].op = "add" THEN "commit" ELSE "done"
           new == {[from |-> r, to |-> u] : u \in {call[r].tell} \ {None, call[r].actor}}
<1>1. pc[r] = "notify" /\ Goto(r, label) /\ jobs' = jobs \cup new
      /\ UNCHANGED <<registered, member, invite, mailed, audited, tx, call>>
  BY DEF Notify, tables
<1>2. OutsideOK /\ StartedOK(r) /\ call[r] \in Call /\ call[r].op \in {"add", "accept"}
      /\ label \in Labels(call[r].op)
  BY <1>1, Started DEF Labels
<1>3. new \subseteq [from : Requests, to : Users]
  BY <1>2 DEF Call
<1>4. OutsideOK'
  BY <1>1, <1>2, <1>3 DEF OutsideOK
<1> QED
  BY <1>1, <1>2, <1>4, StepIsQuiet DEF StartedOK

LEMMA ExpiredIsQuiet ==
  ASSUME IInv, NEW r \in Requests, Expired(r)
  PROVE  Quiet(r)
<1>1. /\ pc[r] \in {"select", "write", "burn", "invite", "mail", "notify", "commit"}
      /\ tx[r] = "aborted"
      /\ Goto(r, "done")
      /\ UNCHANGED <<registered, member, invite, mailed, audited, jobs, tx, call>>
  BY DEF Expired, tables, outside
<1>2. Domains /\ OutsideOK' /\ StartedOK(r) /\ call[r] \in Call
  BY <1>1, Started DEF OutsideOK
<1>3. /\ pc'[r] = "done" /\ tx'[r] = "aborted" /\ call'[r] = call[r] /\ Domains'
      /\ \A q \in Requests \ {r} : Same(q)
  BY <1>1, <1>2 DEF Domains, Same, Goto
<1>4. \A u : ~HoldsMember(r, u)'
  BY <1>3 DEF HoldsMember
<1>5. StartedOK(r)'
  BY <1>2, <1>3, <1>4 DEF StartedOK, Changes, Labels, Call
<1> QED
  BY <1>1, <1>2, <1>3, <1>4, <1>5, AdvanceIsQuiet

LEMMA TimeoutIsQuiet ==
  ASSUME IInv, NEW r \in Requests, Timeout(r)
  PROVE  Quiet(r)
<1>1. tx[r] = "open" /\ tx' = [tx EXCEPT ![r] = "aborted"]
      /\ UNCHANGED <<registered, member, invite, mailed, audited, jobs, pc, call>>
  BY DEF Timeout, tables, outside
<1>2. pc[r] # "new"
  BY <1>1 DEF IInv, RequestOK
<1>3. Domains /\ OutsideOK' /\ StartedOK(r)
  BY <1>1, <1>2, Started DEF OutsideOK
<1>4. /\ pc'[r] = pc[r] /\ tx'[r] = "aborted" /\ call'[r] = call[r] /\ Domains'
      /\ \A q \in Requests \ {r} : Same(q)
  BY <1>1, <1>3 DEF Domains, Same
<1>5. \A u : ~HoldsMember(r, u)'
  BY <1>4 DEF HoldsMember
<1>6. StartedOK(r)'
  BY <1>1, <1>3, <1>4, <1>5 DEF StartedOK, Changes
<1> QED
  BY <1>1, <1>2, <1>3, <1>4, <1>5, <1>6, AdvanceIsQuiet

LEMMA DieIsQuiet ==
  ASSUME IInv, NEW r \in Requests, Die(r)
  PROVE  Quiet(r)
BY ThrowIsQuiet DEF Die, InProgress, tables, outside

-----------------------------------------------------------------------------
(* The commit, and the two steps of the world around.                      *)

\* What the commit of r leaves of the membership of u.
LEMMA MemberAfterCommit ==
  ASSUME IInv, NEW r \in Requests, StartedOK(r), NEW u \in DOMAIN MemberAfter(r)
  PROVE  /\ u \in Users /\ MemberAfter(r)[u] \in MemberRow
         /\ \/ u \in DOMAIN member /\ MemberAfter(r)[u] = member[u]
            \/ u = call[r].who /\ call[r].op # "invite" /\ MemberAfter(r)[u].role \in Below
<1>1. TablesOK /\ call[r] \in Call /\ call[r].who \in Users /\ call[r].op \in
        {"add", "invite", "update", "remove", "accept"}
  BY DEF IInv, StartedOK, Call
<1>2. \A v \in DOMAIN member : v \in Users /\ member[v] \in MemberRow
  BY <1>1 DEF TablesOK
<1>3. CASE call[r].op = "invite"
  BY <1>2, <1>3 DEF MemberAfter
<1>4. CASE call[r].op = "remove"
  BY <1>2, <1>4 DEF MemberAfter
<1>5. CASE call[r].op \notin {"invite", "remove"}
  <2> DEFINE id == IF call[r].who \in DOMAIN member THEN member[call[r].who].id ELSE r
  <2>1. MemberAfter(r) = [v \in DOMAIN member \cup {call[r].who} |->
          IF v = call[r].who THEN [id |-> id, role |-> call[r].role] ELSE member[v]]
    BY <1>5 DEF MemberAfter
  <2>2. call[r].role \in Below /\ Below \subseteq Role
    BY <1>5 DEF StartedOK, Below
  <2>3. id \in Requests \cup {None}
    BY <1>2 DEF MemberRow
  <2> HIDE DEF id
  <2>4. [id |-> id, role |-> call[r].role] \in MemberRow
    BY <2>2, <2>3 DEF MemberRow
  <2> QED
    BY <1>1, <1>2, <1>5, <2>1, <2>2, <2>4
<1> QED
  BY <1>3, <1>4, <1>5

\* Whose membership the commit of r leaves alone.
LEMMA OthersStay ==
  ASSUME NEW r \in Requests, NEW u, u # call[r].who \/ call[r].op = "invite"
  PROVE  /\ u \in DOMAIN MemberAfter(r) <=> u \in DOMAIN member
         /\ u \in DOMAIN member => MemberAfter(r)[u] = member[u]
BY DEF MemberAfter

\* What the commit of r leaves of the invitation of e.
LEMMA InviteAfterCommit ==
  ASSUME IInv, NEW r \in Requests, StartedOK(r), pc[r] # "new", NEW e \in DOMAIN InviteAfter(r)
  PROVE  /\ e \in Users /\ InviteAfter(r)[e] \in InviteRow
         /\ \/ /\ e \in DOMAIN invite /\ InviteAfter(r)[e] = invite[e]
               /\ ~(call[r].op = "accept" /\ e = call[r].who)
            \/ /\ call[r].op = "accept" /\ e = call[r].who /\ e \in DOMAIN invite
               /\ InviteAfter(r)[e].token = invite[e].token /\ InviteAfter(r)[e].accepted
            \/ call[r].op = "invite" /\ e = call[r].who /\ InviteAfter(r)[e].token = r
<1>1. TablesOK /\ call[r] \in Call
  BY DEF IInv, StartedOK
<1>2. \A v \in DOMAIN invite : v \in Users /\ invite[v] \in InviteRow
  BY <1>1 DEF TablesOK
<1>3. CASE call[r].op \notin {"accept", "invite"}
  BY <1>2, <1>3 DEF InviteAfter
<1>4. CASE call[r].op = "accept"
  <2> DEFINE row == [invite[call[r].who] EXCEPT !.accepted = TRUE]
  <2>1. InviteAfter(r) = [v \in DOMAIN invite \cup {call[r].who} |->
          IF v = call[r].who THEN row ELSE invite[v]]
    BY <1>4 DEF InviteAfter
  <2>2. call[r].who \in DOMAIN invite
    BY <1>4 DEF IInv, LinkOK
  <2>3. row \in InviteRow /\ row.token = invite[call[r].who].token /\ row.accepted
    BY <1>2, <2>2 DEF InviteRow
  <2> HIDE DEF row
  <2> QED
    BY <1>2, <1>4, <2>1, <2>2, <2>3
<1>5. CASE call[r].op = "invite"
  <2> DEFINE row == [token |-> r, role |-> call[r].role, by |-> call[r].actor,
                     accepted |-> FALSE, expired |-> FALSE]
  <2>1. InviteAfter(r) = [v \in DOMAIN invite \cup {call[r].who} |->
          IF v = call[r].who THEN row ELSE invite[v]]
    BY <1>5 DEF InviteAfter
  <2>2. row \in InviteRow /\ row.token = r
    BY <1>1, <1>5 DEF StartedOK, InviteRow, Call, Below
  <2>3. call[r].who \in Users
    BY <1>1 DEF Call
  <2> HIDE DEF row
  <2> QED
    BY <1>2, <1>5, <2>1, <2>2, <2>3
<1> QED
  BY <1>3, <1>4, <1>5

LEMMA CommitKeepsInv ==
  ASSUME MembersAssumption, IInv, NEW r \in Requests, Commit(r)
  PROVE  IInv'
<1> DEFINE label == IF call[r].op = "accept" THEN "audit" ELSE "done"
<1>1. /\ pc[r] = "commit" /\ tx[r] = "open" /\ member' = MemberAfter(r)
      /\ invite' = InviteAfter(r) /\ tx' = [tx EXCEPT ![r] = "committed"] /\ Goto(r, label)
      /\ UNCHANGED <<registered, mailed, audited, jobs, call>>
  BY DEF Commit, outside
<1>2. Domains /\ OutsideOK /\ StartedOK(r) /\ call[r] \in Call /\ call[r].who \in Users
      /\ TablesOK /\ LinkOK /\ OneHolder /\ UsedLinkIsSpent /\ \A q \in Requests : RequestOK(q)
  BY <1>1, Started DEF IInv
<1>3. /\ pc'[r] = label /\ tx'[r] = "committed" /\ Domains' /\ OutsideOK'
      /\ \A q \in Requests \ {r} : Same(q)
  BY <1>1, <1>2 DEF Domains, OutsideOK, Same, Goto
<1>4. label \in Labels(call[r].op) /\ label \in {"audit", "done"}
      /\ (label = "audit" => call[r].op = "accept")
  BY <1>1, <1>2 DEF Labels, Call
<1> HIDE DEF label
<1>5. TablesOK'
  <2>1. DOMAIN member' \subseteq Users /\ \A u \in DOMAIN member' : member'[u] \in MemberRow
    BY <1>1, <1>2, MemberAfterCommit
  <2>2. DOMAIN invite' \subseteq Users /\ \A e \in DOMAIN invite' : invite'[e] \in InviteRow
    BY <1>1, <1>2, InviteAfterCommit
  <2> QED
    BY <2>1, <2>2 DEF TablesOK
<1>6. \A t : Known(t) => Known(t)'
  <2>1. \A q \in Requests : tx[q] = "committed" => tx'[q] = "committed"
    BY <1>3 DEF Same
  <2>2. ASSUME NEW t, tx[t] = "committed"
        PROVE  tx'[t] = "committed"
    BY <1>1, <1>2, <1>3, <2>2 DEF Domains
  <2> QED
    BY <2>2 DEF Known
<1>7. LinkOK'
  <2>1. ASSUME NEW e \in DOMAIN invite'
        PROVE  invite'[e].token = None \/ tx'[invite'[e].token] = "committed"
    <3>1. \/ e \in DOMAIN invite /\ invite'[e].token = invite[e].token
          \/ invite'[e].token = r
      BY <1>1, <1>2, <2>1, InviteAfterCommit
    <3> QED
      BY <1>2, <1>3, <1>6, <3>1 DEF LinkOK, Known
  <2>2. DOMAIN invite \subseteq DOMAIN invite'
    BY <1>1, <1>2 DEF InviteAfter
  <2>3. ASSUME NEW q \in Requests, pc'[q] # "new", call[q].op = "accept"
        PROVE  call[q].who \in DOMAIN invite' /\ Known(call[q].token)'
    <3>1. pc[q] # "new"
      BY <1>1, <1>3, <2>3 DEF Same
    <3> QED
      BY <1>1, <1>2, <1>6, <2>2, <2>3, <3>1 DEF LinkOK, Known
  <2> QED
    BY <1>1, <2>1, <2>3 DEF LinkOK, Known
<1>8. \A u : ~HoldsMember(r, u)' /\ \A q \in Requests \ {r} : HoldsMember(q, u)' <=> HoldsMember(q, u)
  BY <1>3 DEF Same, HoldsMember
<1>9. OneHolder'
  BY <1>2, <1>8 DEF OneHolder
<1>10. UsedLinkIsSpent'
  <2> SUFFICES ASSUME NEW q \in Requests, NEW e \in DOMAIN invite', tx'[q] = "committed",
                      call[q].op = "accept", call[q].who = e, call[q].token = invite'[e].token
               PROVE  invite'[e].accepted
    BY <1>1 DEF UsedLinkIsSpent
  <2>1. \/ /\ e \in DOMAIN invite /\ invite'[e] = invite[e]
           /\ ~(call[r].op = "accept" /\ e = call[r].who)
        \/ invite'[e].accepted
        \/ call[r].op = "invite" /\ invite'[e].token = r
    BY <1>1, <1>2, InviteAfterCommit
  <2>2. q # r => tx[q] = "committed" /\ pc[q] # "new"
    BY <1>2, <1>3 DEF Same, RequestOK
  <2>3. CASE q = r
    <3>1. call[r].op = "accept" /\ call[r].who = e
      BY <2>3
    <3> QED
      BY <2>1, <3>1
  <2>4. CASE q # r
    <3>1. call[q].token # r
      BY <1>1, <1>2, <2>2, <2>4 DEF LinkOK, Known, MembersAssumption
    <3> QED
      BY <1>2, <2>1, <2>2, <2>4, <3>1 DEF UsedLinkIsSpent
  <2> QED
    BY <2>3, <2>4
<1>11. HoldsMember(r, call[r].who) \/ call[r].op = "invite"
  BY <1>1 DEF HoldsMember
<1>12. RequestOK(r)'
  BY <1>1, <1>2, <1>3, <1>4, <1>8 DEF RequestOK, StartedOK, Changes
<1>13. ASSUME NEW q \in Requests \ {r}
       PROVE  RequestOK(q)'
  <2>1. /\ pc'[q] = pc[q] /\ tx'[q] = tx[q] /\ call'[q] = call[q] /\ RequestOK(q)
        /\ \A u : HoldsMember(q, u)' <=> HoldsMember(q, u)
    BY <1>2, <1>3, <1>8, <1>13 DEF Same
  <2>2. CASE pc[q] = "new"
    BY <2>1, <2>2 DEF RequestOK
  <2>3. CASE pc[q] # "new"
    <3>1. StartedOK(q) /\ call[q].who \in Users
      BY <2>1, <2>3 DEF RequestOK, StartedOK, Call
    <3>2. call[q].who \in DOMAIN member' =>
            \/ call[q].who \in DOMAIN member /\ member'[call[q].who] = member[call[q].who]
            \/ member'[call[q].who].role # "OWNER"
      BY <1>1, <1>2, MemberAfterCommit DEF Below
    <3>3. HoldsMember(q, call[q].who) /\ call[q].who \in DOMAIN member =>
            call[q].who \in DOMAIN member' /\ member'[call[q].who] = member[call[q].who]
      BY <1>1, <1>2, <1>11, <1>13, <3>1, OthersStay DEF OneHolder
    <3>4. StartedOK(q)'
      BY <2>1, <3>1, <3>2, <3>3 DEF StartedOK, Changes
    <3> QED
      BY <2>1, <3>4 DEF RequestOK
  <2> QED
    BY <2>2, <2>3
<1> QED
  BY <1>3, <1>5, <1>7, <1>9, <1>10, <1>12, <1>13 DEF IInv

\* Registration and the clock leave the memberships, the requests and the tokens alone.
LEMMA WorldKeepsInv ==
  ASSUME IInv, NEW u \in Users, Register(u) \/ InviteExpires(u)
  PROVE  IInv'
<1>1. UNCHANGED <<member, mailed, audited, jobs, pc, tx, call>> /\ registered' \subseteq Users
  BY DEF Register, InviteExpires, outside, IInv, OutsideOK
<1>2. /\ DOMAIN invite' = DOMAIN invite
      /\ \A e \in DOMAIN invite : invite'[e] \in InviteRow /\ invite'[e].token = invite[e].token
                                  /\ invite'[e].accepted = invite[e].accepted
  <2>1. \A e \in DOMAIN invite : invite[e] \in InviteRow
    BY DEF IInv, TablesOK
  <2>2. CASE Register(u)
    BY <2>1, <2>2 DEF Register
  <2>3. CASE InviteExpires(u)
    <3>1. invite' = [invite EXCEPT ![u] = [invite[u] EXCEPT !.expired = TRUE]] /\ u \in DOMAIN invite
      BY <2>3 DEF InviteExpires
    <3>2. [invite[u] EXCEPT !.expired = TRUE] \in InviteRow
          /\ [invite[u] EXCEPT !.expired = TRUE].token = invite[u].token
          /\ [invite[u] EXCEPT !.expired = TRUE].accepted = invite[u].accepted
      BY <2>1, <3>1 DEF InviteRow
    <3> QED
      BY <2>1, <3>1, <3>2
  <2> QED
    BY <2>2, <2>3
<1>3. \A q \in Requests : RequestOK(q)'
  BY <1>1 DEF IInv, RequestOK, StartedOK, Changes, HoldsMember
<1>4. TablesOK' /\ OutsideOK' /\ Domains' /\ OneHolder'
  BY <1>1, <1>2 DEF IInv, TablesOK, OutsideOK, Domains, OneHolder, HoldsMember
<1>5. LinkOK' /\ UsedLinkIsSpent'
  BY <1>1, <1>2 DEF IInv, LinkOK, Known, UsedLinkIsSpent
<1> QED
  BY <1>3, <1>4, <1>5 DEF IInv

LEMMA InitIInv ==
  ASSUME MembersAssumption, Init
  PROVE  IInv
<1>1. PICK s \in Starts :
        /\ registered = s.users
        /\ member = [u \in DOMAIN s.role |-> [id |-> None, role |-> s.role[u]]]
        /\ invite = [e \in DOMAIN s.invited |->
                        [token |-> None, role |-> "MEMBER", by |-> s.invited[e],
                         accepted |-> FALSE, expired |-> FALSE]]
  BY DEF Init
<1>2. /\ DOMAIN s.role \subseteq s.users /\ s.users \subseteq Users
      /\ \A u \in DOMAIN s.role : s.role[u] \in Role
      /\ DOMAIN s.invited \subseteq Users /\ \A e \in DOMAIN s.invited : s.invited[e] \in Users
  BY DEF MembersAssumption
<1>3. TablesOK
  <2>1. \A u \in DOMAIN member : member[u] \in MemberRow
    BY <1>1, <1>2 DEF MemberRow
  <2>2. \A e \in DOMAIN invite : invite[e] \in InviteRow
    BY <1>1, <1>2 DEF InviteRow, Role
  <2> QED
    BY <1>1, <1>2, <2>1, <2>2 DEF TablesOK
<1>4. OutsideOK /\ Domains
  BY <1>1, <1>2 DEF Init, OutsideOK, Domains
<1>5. \A r \in Requests : pc[r] = "new" /\ tx[r] = "none"
  BY DEF Init
<1>6. \A e \in DOMAIN invite : invite[e].token = None
  BY <1>1
<1>7. LinkOK /\ OneHolder /\ UsedLinkIsSpent /\ \A r \in Requests : RequestOK(r)
  BY <1>5, <1>6 DEF LinkOK, Known, OneHolder, HoldsMember, UsedLinkIsSpent, RequestOK
<1> QED
  BY <1>3, <1>4, <1>7 DEF IInv

\* What a step does to the invariant's parts: a quiet step, a commit, or neither.
LEMMA StepIsQuietOrCommits ==
  ASSUME MembersAssumption, IInv, Next
  PROVE  \/ \E r \in Requests : Quiet(r) \/ Commit(r)
         \/ \E u \in Users : Register(u) \/ InviteExpires(u)
<1>1. ASSUME NEW r \in Requests, NEW a \in Users, NEW u \in Users,
             \/ \E op \in {"add", "update"}, role \in Grantable : Admit(r, a, op, u, role)
             \/ Admit(r, a, "remove", u, None)
      PROVE  Quiet(r)
  BY <1>1, AdmitIsQuiet
<1>2. ASSUME NEW r \in Requests, NEW u \in Users, ReadInvite(r, u)
      PROVE  Quiet(r)
  BY <1>2, ReadInviteIsQuiet
<1>3. ASSUME NEW r \in Requests, Continue(r) \/ Timeout(r) \/ Die(r)
      PROVE  Quiet(r) \/ Commit(r)
  <2>1. CASE LookUpUser(r)
    BY <2>1, LookUpUserIsQuiet
  <2>2. CASE ReadTarget(r)
    BY <2>2, ReadTargetIsQuiet
  <2>3. CASE SelectMember(r)
    BY <2>3, SelectMemberIsQuiet
  <2>4. CASE WriteMember(r)
    BY <2>4, WriteMemberIsQuiet
  <2>5. CASE BurnInvite(r)
    BY <2>5, BurnInviteIsQuiet
  <2>6. CASE UpsertInvite(r)
    BY <2>6, UpsertInviteIsQuiet
  <2>7. CASE Mail(r)
    BY <2>7, MailIsQuiet
  <2>8. CASE Audit(r)
    BY <2>8, AuditIsQuiet
  <2>9. CASE Notify(r)
    BY <2>9, NotifyIsQuiet
  <2>10. CASE Expired(r)
    BY <2>10, ExpiredIsQuiet
  <2>11. CASE Timeout(r)
    BY <2>11, TimeoutIsQuiet
  <2>12. CASE Die(r)
    BY <2>12, DieIsQuiet
  <2> QED
    BY <1>3, <2>1, <2>2, <2>3, <2>4, <2>5, <2>6, <2>7, <2>8, <2>9, <2>10, <2>11, <2>12
       DEF Continue
<1> QED
  BY <1>1, <1>2, <1>3 DEF Next

LEMMA NextKeepsInv ==
  ASSUME MembersAssumption, IInv, [Next]_vars
  PROVE  IInv'
<1>1. CASE Next
  BY <1>1, StepIsQuietOrCommits, QuietKeepsInv, CommitKeepsInv, WorldKeepsInv
<1>2. CASE UNCHANGED vars
  BY <1>2 DEF vars, tables, outside, IInv, Domains, TablesOK, OutsideOK, LinkOK, Known,
              OneHolder, UsedLinkIsSpent, RequestOK, StartedOK, Changes, HoldsMember
<1> QED
  BY <1>1, <1>2

\* The rows hold: one open transaction at most has written any membership, it
\* wrote the membership its request had read, and that one was not an owner's.
THEOREM LocksHold == Spec => []IInv
<1>1. Init => IInv
  BY InitIInv, MembersAssumption
<1>2. IInv /\ [Next]_vars => IInv'
  BY NextKeepsInv, MembersAssumption
<1> QED
  BY <1>1, <1>2, PTL DEF Spec

\* A link that let somebody in is spent for everybody who opens it afterwards
\* (acceptInvite sets acceptedAt in the transaction that admits the user).
THEOREM LinksAreSpent == Spec => []UsedLinkIsSpent
<1>1. IInv => UsedLinkIsSpent
  BY DEF IInv
<1> QED
  BY <1>1, LocksHold, PTL

\* updateMemberRole and removeMember write the membership they checked, and no
\* owner's: the row's id is in the WHERE of the write, and an owner's role is
\* nothing that a membership can acquire.
THEOREM CheckedIsWritten == Spec => ActsOnWhatItChecked
<1> DEFINE Step == \A r \in Requests :
                     Commits(r) /\ call[r].op \in {"update", "remove"} =>
                       /\ call[r].who \in DOMAIN member
                       /\ member[call[r].who].id = call[r].row.id
                       /\ member[call[r].who].role # "OWNER"
<1>1. IInv /\ [Next]_vars => [Step]_vars
  <2> SUFFICES ASSUME IInv, Next, NEW r \in Requests, Commits(r), Changes(r)
               PROVE  /\ call[r].who \in DOMAIN member
                      /\ member[call[r].who].id = call[r].row.id
                      /\ member[call[r].who].role # "OWNER"
    BY DEF Changes
  <2>1. PICK q \in Requests : Commit(q)
    BY StepIsQuietOrCommits, MembersAssumption
       DEF Quiet, Same, Commits, Register, InviteExpires
  <2>2. Domains /\ tx[r] = "open" /\ tx'[r] = "committed" /\ tx' = [tx EXCEPT ![q] = "committed"]
        /\ pc[q] = "commit"
    BY <2>1 DEF IInv, Commits, Commit
  <2>3. q = r
    BY <2>2 DEF Domains
  <2>4. StartedOK(r)
    BY <2>2, <2>3 DEF IInv, RequestOK
  <2>5. HoldsMember(r, call[r].who)
    BY <2>2, <2>3 DEF HoldsMember, Changes
  <2> QED
    BY <2>2, <2>3, <2>4, <2>5 DEF StartedOK
<1> QED
  BY <1>1, LocksHold, PTL DEF Spec, ActsOnWhatItChecked

\* An owner's membership is changed by nothing but an upsert of the owner's own
\* address: addMember and acceptInvite, which ask for no role of the old row.
THEOREM OwnersStay == Spec => OwnersOnlyInvitedAway
<1> DEFINE Step == \A u \in DOMAIN member :
                     member[u].role = "OWNER" /\ RowOf(u)' # member[u] =>
                       \E r \in Requests :
                         Commits(r) /\ call[r].who = u /\ call[r].op \in {"add", "accept"}
<1>1. IInv /\ [Next]_vars => [Step]_vars
  <2> SUFFICES ASSUME IInv, Next, NEW u \in DOMAIN member, member[u].role = "OWNER",
                      RowOf(u)' # member[u]
               PROVE  \E r \in Requests : /\ Commits(r) /\ call[r].who = u
                                          /\ call[r].op \in {"add", "accept"}
    OBVIOUS
  <2>1. member' # member
    BY DEF RowOf
  <2>2. PICK r \in Requests : Commit(r)
    BY <2>1, StepIsQuietOrCommits, MembersAssumption DEF Quiet, Register, InviteExpires
  <2>3. Domains /\ tx[r] = "open" /\ tx' = [tx EXCEPT ![r] = "committed"] /\ pc[r] = "commit"
        /\ member' = MemberAfter(r) /\ StartedOK(r)
    BY <2>2 DEF IInv, RequestOK, Commit
  <2>4. Commits(r)
    BY <2>3 DEF Commits, Domains
  <2>5. call[r].who = u /\ call[r].op # "invite"
    BY <2>3, OthersStay DEF RowOf
  <2>6. ~Changes(r)
    BY <2>3, <2>5 DEF StartedOK, HoldsMember, Changes
  <2>7. call[r].op \in {"add", "invite", "update", "remove", "accept"}
    BY <2>3 DEF StartedOK, Call
  <2> QED
    BY <2>4, <2>5, <2>6, <2>7 DEF Changes
<1> QED
  BY <1>1, LocksHold, PTL DEF Spec, OwnersOnlyInvitedAway

\* pc and tx are functions, which the domains of the invariant do not say.
LEMMA AdmitSetsEntries ==
  ASSUME NEW r \in Requests, NEW a, NEW op, NEW u, NEW role, Admit(r, a, op, u, role)
  PROVE  /\ pc' = pc \/ \E label : pc' = [pc EXCEPT ![r] = label]
         /\ tx' = tx \/ \E state : tx' = [tx EXCEPT ![r] = state]
  BY DEF Admit, Enter, Goto

LEMMA StepSetsEntries ==
  ASSUME NEW r \in Requests, NEW u,
         ReadInvite(r, u) \/ Continue(r) \/ Timeout(r) \/ Die(r)
  PROVE  /\ pc' = pc \/ \E label : pc' = [pc EXCEPT ![r] = label]
         /\ tx' = tx \/ \E state : tx' = [tx EXCEPT ![r] = state]
<1>1. CASE ReadInvite(r, u)
  BY <1>1 DEF ReadInvite, Enter, Goto
<1>2. CASE LookUpUser(r) \/ SelectMember(r) \/ ReadTarget(r) \/ WriteMember(r)
  BY <1>2 DEF LookUpUser, SelectMember, ReadTarget, WriteMember, Begin, Goto, Throw
<1>3. CASE BurnInvite(r) \/ UpsertInvite(r) \/ Mail(r) \/ Audit(r) \/ Notify(r)
  BY <1>3 DEF BurnInvite, UpsertInvite, Mail, Audit, Notify, Goto
<1>4. CASE Commit(r) \/ Expired(r) \/ Timeout(r) \/ Die(r)
  BY <1>4 DEF Commit, Expired, Timeout, Die, Goto, Throw
<1> QED
  BY <1>1, <1>2, <1>3, <1>4 DEF Continue

Functions == pc = [r \in Requests |-> pc[r]] /\ tx = [r \in Requests |-> tx[r]]

LEMMA NextKeepsFunctions ==
  ASSUME Functions, [Next]_vars
  PROVE  Functions'
<1>1. CASE UNCHANGED <<pc, tx>>
  BY <1>1 DEF Functions
<1>2. ASSUME NEW r \in Requests,
             pc' = pc \/ \E label : pc' = [pc EXCEPT ![r] = label],
             tx' = tx \/ \E state : tx' = [tx EXCEPT ![r] = state]
      PROVE  Functions'
  BY <1>2 DEF Functions
<1>3. CASE Next
  <2>1. CASE \E u \in Users : Register(u) \/ InviteExpires(u)
    BY <1>1, <2>1 DEF Register, InviteExpires
  <2>2. ASSUME NEW r \in Requests, NEW a \in Users, NEW u \in Users,
               \/ \E op \in {"add", "update"}, role \in Grantable : Admit(r, a, op, u, role)
               \/ Admit(r, a, "remove", u, None)
        PROVE  Functions'
    <3>1. ASSUME NEW op, NEW role, Admit(r, a, op, u, role)
          PROVE  Functions'
      BY <1>2, <3>1, AdmitSetsEntries
    <3> QED
      BY <2>2, <3>1
  <2>3. ASSUME NEW r \in Requests, NEW u \in Users, ReadInvite(r, u)
        PROVE  Functions'
    BY <1>2, <2>3, StepSetsEntries
  <2>4. ASSUME NEW r \in Requests, Continue(r) \/ Timeout(r) \/ Die(r)
        PROVE  Functions'
    BY <1>2, <2>4, StepSetsEntries
  <2> QED
    BY <1>3, <2>1, <2>2, <2>3, <2>4 DEF Next
<1> QED
  BY <1>1, <1>3 DEF vars

\* Every variable keeps the shape the tables and the handlers give it.
THEOREM TypesHold == Spec => []TypeOK
<1>1. Init => Functions
  BY DEF Init, Functions
<1>2. Functions /\ [Next]_vars => Functions'
  BY NextKeepsFunctions
<1>3. IInv /\ Functions => TypeOK
  <2> SUFFICES ASSUME IInv, Functions
               PROVE  TypeOK
    OBVIOUS
  <2>1. ASSUME NEW r \in Requests
        PROVE  /\ pc[r] \in {"new", "lookup", "target", "select", "write", "burn", "invite",
                             "mail", "audit", "notify", "commit", "done"}
               /\ tx[r] \in {"none", "open", "committed", "aborted"}
    <3>1. RequestOK(r)
      BY DEF IInv
    <3>2. pc[r] = "new" \/ (pc[r] \in Labels(call[r].op) /\ call[r] \in Call)
      BY <3>1 DEF RequestOK, StartedOK
    <3>3. call[r] \in Call => call[r].op \in {"add", "invite", "update", "remove", "accept"}
      BY DEF Call
    <3> QED
      BY <3>1, <3>2, <3>3 DEF RequestOK, Labels
  <2>2. TablesOK /\ OutsideOK
    BY DEF IInv
  <2> QED
    BY <2>1, <2>2 DEF TypeOK, TablesOK, OutsideOK, Functions
<1> QED
  BY <1>1, <1>2, <1>3, LocksHold, PTL DEF Spec

=============================================================================
