------------------------------ MODULE Members ------------------------------
(***************************************************************************)
(* The members of one organization and the invitations to it: OrgsService  *)
(* addMember, updateMemberRole, removeMember and acceptInvite, behind      *)
(* TenantGuard and RbacGuard.  The first three run in the transaction of   *)
(* TenantRlsInterceptor, which begins after the guards have passed and     *)
(* commits after the handler has returned; acceptInvite reads the invite   *)
(* outside any transaction, writes in a short one of its own, and tells    *)
(* the inviter afterwards.  READ COMMITTED, as in Issues.                  *)
(*                                                                         *)
(* A user stands for the address too.  A membership is named by the        *)
(* request that inserted it, an invite's token by the request that issued  *)
(* it; None names what was there at the start.  A row that a request has   *)
(* written cannot change until its transaction ends, so that the version   *)
(* it commits can be made at the commit.                                   *)
(***************************************************************************)
EXTENDS Naturals, FiniteSets

CONSTANTS Users,       \* people, with their addresses
          Requests,    \* HTTP requests of a run
          Unreliable,  \* requests whose transaction may time out, or a call of which may fail
          Asked,       \* roles that requests ask for
          Starts,      \* where a run begins: accounts, roles, and who invited whom
          MaxOpen,     \* requests that are in progress at the same time
          None         \* "no value"

Role == {"OWNER", "ADMIN", "MEMBER", "GUEST"}
MemberRow == [id : Requests \cup {None}, role : Role]

ASSUME MembersAssumption ==
  /\ None \notin Users \cup Requests \cup MemberRow
  /\ Unreliable \subseteq Requests /\ Asked \subseteq Role
  /\ \A s \in Starts : /\ DOMAIN s.role \subseteq s.users /\ s.users \subseteq Users
                       /\ \A u \in DOMAIN s.role : s.role[u] \in Role
                       /\ DOMAIN s.invited \subseteq Users
                       /\ \A e \in DOMAIN s.invited : s.invited[e] \in Users
  /\ MaxOpen \in Nat

VARIABLES registered,  \* users with an account
          member,      \* the Membership table, committed: user -> [id, role]
          invite,      \* the Invite table, committed: address -> row
          mailed,      \* tokens whose link was mailed
          audited,     \* requests whose audit row is stored
          jobs,        \* notification jobs: [from, to]
          pc,          \* the statement a request runs next
          tx,          \* its transaction: "none", "open", "committed" or "aborted"
          call         \* its input and what it has read (None before it starts)

tables == <<registered, member, invite>>
outside == <<mailed, audited, jobs>>
vars == <<tables, outside, pc, tx, call>>

\* inviteMemberSchema and updateMemberRoleSchema: nobody is made an owner.
AnyRole == Asked  \* a mistake: the schema takes every role
Grantable == Asked \ {"OWNER"}

Init ==
  /\ \E s \in Starts :
       /\ registered = s.users
       /\ member = [u \in DOMAIN s.role |-> [id |-> None, role |-> s.role[u]]]
       /\ invite = [e \in DOMAIN s.invited |->
                       [token |-> None, role |-> "MEMBER", by |-> s.invited[e],
                        accepted |-> FALSE, expired |-> FALSE]]
  /\ mailed = {} /\ audited = {} /\ jobs = {}
  /\ pc = [r \in Requests |-> "new"]
  /\ tx = [r \in Requests |-> "none"]
  /\ call = [r \in Requests |-> None]

-----------------------------------------------------------------------------
\* Row locks, held from the write to the end of the transaction.
HoldsMember(r, u) ==
  /\ tx[r] = "open" /\ call[r].who = u /\ call[r].op # "invite"
  /\ pc[r] \notin {"lookup", "target", "select", "write"}
HoldsInvite(r, e) ==
  /\ tx[r] = "open" /\ call[r].who = e
  /\ \/ call[r].op = "invite" /\ pc[r] # "invite"
     \/ call[r].op = "accept" /\ pc[r] \notin {"select", "write", "burn"}

InProgress == {r \in Requests : pc[r] \notin {"new", "done"}}

Goto(r, label) == pc' = [pc EXCEPT ![r] = label]

Begin(r) == tx' = [tx EXCEPT ![r] = "open"]

\* An exception leaves the handler: what its transaction wrote is rolled back.
ThrowLeavingItOpen(r) ==  \* a mistake: the transaction is never ended
  /\ Goto(r, "done")
  /\ UNCHANGED tx
Throw(r) ==
  /\ Goto(r, "done")
  /\ tx' = [tx EXCEPT ![r] = IF @ = "committed" THEN @ ELSE "aborted"]

Enter(r, label, c) ==
  /\ pc[r] = "new"
  /\ Cardinality(InProgress) < MaxOpen
  /\ Goto(r, label)
  /\ call' = [call EXCEPT ![r] = c]
  /\ UNCHANGED <<tables, outside, tx>>

-----------------------------------------------------------------------------
\* TenantGuard reads the actor's role, RbacGuard wants one with the permission
\* (member:invite, member:update_role and member:remove are the admins').
Admit(r, actor, op, who, role) ==
  /\ actor \in DOMAIN member /\ member[actor].role \in {"OWNER", "ADMIN"}
  /\ Enter(r, IF op = "add" THEN "lookup" ELSE "target",
           [op |-> op, actor |-> actor, who |-> who, role |-> role, token |-> None,
            tell |-> None, row |-> None])

\* addMember: is there an account with the address?
LookUpUser(r) ==
  /\ pc[r] = "lookup" /\ tx[r] = "none"
  /\ Begin(r)
  /\ LET who == call[r].who
     IN  IF who \in registered
           THEN Goto(r, "select") /\ call' = [call EXCEPT ![r].tell = who]
           ELSE Goto(r, "invite") /\ call' = [call EXCEPT ![r].op = "invite"]
  /\ UNCHANGED <<tables, outside>>

RowOf(u) == IF u \in DOMAIN member THEN member[u] ELSE None

\* updateMemberRole, removeMember: read the target; 404 if there is none, 403
\* if it is an owner.
ReadTargetUnchecked(r) ==  \* a mistake: owners are not refused
  /\ pc[r] = "target" /\ tx[r] = "none"
  /\ LET row == RowOf(call[r].who)
     IN  IF row = None
           THEN Throw(r) /\ UNCHANGED call
           ELSE Begin(r) /\ Goto(r, "write") /\ call' = [call EXCEPT ![r].row = row]
  /\ UNCHANGED <<tables, outside>>
ReadTarget(r) ==
  /\ pc[r] = "target" /\ tx[r] = "none"
  /\ LET row == RowOf(call[r].who)
     IN  IF row = None \/ row.role = "OWNER"
           THEN Throw(r) /\ UNCHANGED call
           ELSE Begin(r) /\ Goto(r, "write") /\ call' = [call EXCEPT ![r].row = row]
  /\ UNCHANGED <<tables, outside>>

\* acceptInvite: read the invite of the link, which is in the mail alone; used,
\* expired, replaced or another's links answer 400 or 403.
ReadInvite(r, u) ==
  /\ u \in registered \cap DOMAIN invite
  /\ invite[u].token \in mailed \cup {None}
  /\ ~invite[u].accepted /\ ~invite[u].expired
  /\ Enter(r, "select",
           [op |-> "accept", actor |-> u, who |-> u, role |-> invite[u].role,
            token |-> invite[u].token, tell |-> invite[u].by, row |-> None])

\* upsert of a membership: its select asks for relations, so Prisma reads first
\* and then inserts or updates.
SelectMember(r) ==
  /\ pc[r] = "select" /\ tx[r] # "aborted"
  /\ Begin(r)
  /\ call' = [call EXCEPT ![r].row = RowOf(call[r].who)]
  /\ Goto(r, "write")
  /\ UNCHANGED <<tables, outside>>

\* Does the row that was read still exist?  Updates and deletes go by its id.
SomeRowStands(r) == call[r].who \in DOMAIN member  \* a mistake: by user, not by id
RowStands(r) == call[r].who \in DOMAIN member /\ member[call[r].who].id = call[r].row.id

\* INSERT, UPDATE or DELETE of a membership.  It waits for whoever holds the row
\* or its unique key; a row that is gone, or that is there already, is an error.
WriteMember(r) ==
  /\ pc[r] = "write" /\ tx[r] = "open"
  /\ \A q \in Requests : ~HoldsMember(q, call[r].who)
  /\ IF IF call[r].row = None THEN call[r].who \notin DOMAIN member ELSE RowStands(r)
       THEN Goto(r, IF call[r].op = "accept" THEN "burn" ELSE "audit") /\ UNCHANGED tx
       ELSE Throw(r)
  /\ UNCHANGED <<tables, outside, call>>

\* acceptInvite: set acceptedAt, by the invite's id.
BurnInvite(r) ==
  /\ pc[r] = "burn" /\ tx[r] = "open"
  /\ \A q \in Requests : ~HoldsInvite(q, call[r].who)
  /\ Goto(r, "commit")
  /\ UNCHANGED <<tables, outside, tx, call>>

\* addMember: insert the invite, or give the old one a new token.
UpsertInvite(r) ==
  /\ pc[r] = "invite" /\ tx[r] = "open"
  /\ \A q \in Requests : ~HoldsInvite(q, call[r].who)
  /\ Goto(r, "mail")
  /\ UNCHANGED <<tables, outside, tx, call>>

\* MailService.send swallows its failure.
Mail(r) ==
  /\ pc[r] = "mail"
  /\ mailed' \in {mailed \cup {r}, IF r \in Unreliable THEN mailed ELSE mailed \cup {r}}
  /\ Goto(r, "audit")
  /\ UNCHANGED <<tables, audited, jobs, tx, call>>

\* AuditService.record swallows its failure too.
Audit(r) ==
  /\ pc[r] = "audit"
  /\ audited' \in {audited \cup {r}, IF r \in Unreliable THEN audited ELSE audited \cup {r}}
  /\ Goto(r, IF call[r].op \in {"add", "accept"} THEN "notify" ELSE "commit")
  /\ UNCHANGED <<tables, mailed, jobs, tx, call>>

\* enqueue: the added user, or whoever sent the invite; not one's own doing.
Notify(r) ==
  /\ pc[r] = "notify"
  /\ jobs' = jobs \cup {[from |-> r, to |-> u] : u \in {call[r].tell} \ {None, call[r].actor}}
  /\ Goto(r, IF call[r].op = "add" THEN "commit" ELSE "done")
  /\ UNCHANGED <<tables, mailed, audited, tx, call>>

-----------------------------------------------------------------------------
\* The tables a transaction leaves behind.
MemberAfter(r) ==
  LET c == call[r]
      id == IF c.who \in DOMAIN member THEN member[c.who].id ELSE r
  IN  CASE c.op = "invite" -> member
        [] c.op = "remove" -> [u \in DOMAIN member \ {c.who} |-> member[u]]
        [] OTHER -> [u \in DOMAIN member \cup {c.who} |->
                       IF u = c.who THEN [id |-> id, role |-> c.role] ELSE member[u]]

InviteAfterUnburnt(r) ==  \* a mistake: acceptedAt is not set
  IF call[r].op # "invite" THEN invite
  ELSE [e \in DOMAIN invite \cup {call[r].who} |->
          IF e = call[r].who THEN [token |-> r, role |-> call[r].role, by |-> call[r].actor,
                                   accepted |-> FALSE, expired |-> FALSE]
                             ELSE invite[e]]
InviteAfter(r) ==
  LET c == call[r]
      row == IF c.op = "accept"
               THEN [invite[c.who] EXCEPT !.accepted = TRUE]
               ELSE [token |-> r, role |-> c.role, by |-> c.actor,
                     accepted |-> FALSE, expired |-> FALSE]
  IN  IF c.op \notin {"accept", "invite"} THEN invite
      ELSE [e \in DOMAIN invite \cup {c.who} |-> IF e = c.who THEN row ELSE invite[e]]

Commit(r) ==
  /\ pc[r] = "commit" /\ tx[r] = "open"
  /\ member' = MemberAfter(r)
  /\ invite' = InviteAfter(r)
  /\ tx' = [tx EXCEPT ![r] = "committed"]
  /\ Goto(r, IF call[r].op = "accept" THEN "audit" ELSE "done")
  /\ UNCHANGED <<registered, outside, call>>

\* A statement of a transaction that has timed out throws.  Before it mails and
\* before it enqueues, addMember reads the organization's name, so that it may or
\* may not get there.
Expired(r) ==
  /\ pc[r] \in {"select", "write", "burn", "invite", "mail", "notify", "commit"}
  /\ tx[r] = "aborted"
  /\ Goto(r, "done")
  /\ UNCHANGED <<tables, outside, tx, call>>

Timeout(r) ==
  /\ r \in Unreliable /\ tx[r] = "open"
  /\ tx' = [tx EXCEPT ![r] = "aborted"]
  /\ UNCHANGED <<tables, outside, pc, call>>

\* A statement or an enqueue fails, or the process dies.
Die(r) ==
  /\ r \in Unreliable /\ r \in InProgress
  /\ Throw(r)
  /\ UNCHANGED <<tables, outside, call>>

-----------------------------------------------------------------------------
\* AuthService.register, for somebody who was only an address.
Register(u) ==
  /\ u \notin registered
  /\ registered' = registered \cup {u}
  /\ UNCHANGED <<member, invite, outside, pc, tx, call>>

\* An invite passes its expiresAt.
InviteExpires(e) ==
  /\ e \in DOMAIN invite /\ ~invite[e].expired
  /\ invite' = [invite EXCEPT ![e].expired = TRUE]
  /\ UNCHANGED <<registered, member, outside, pc, tx, call>>

Continue(r) ==
  \/ LookUpUser(r) \/ ReadTarget(r) \/ SelectMember(r) \/ WriteMember(r)
  \/ BurnInvite(r) \/ UpsertInvite(r) \/ Mail(r) \/ Audit(r) \/ Notify(r)
  \/ Commit(r) \/ Expired(r)

Next ==
  \/ \E r \in Requests, a, u \in Users :
       \/ \E op \in {"add", "update"}, role \in Grantable : Admit(r, a, op, u, role)
       \/ Admit(r, a, "remove", u, None)
  \/ \E r \in Requests, u \in Users : ReadInvite(r, u)
  \/ \E r \in Requests : Continue(r) \/ Timeout(r) \/ Die(r)
  \/ \E u \in Users : Register(u) \/ InviteExpires(u)

Spec == Init /\ [][Next]_vars
FairSpec == Spec /\ \A r \in Requests : WF_vars(Continue(r))

-----------------------------------------------------------------------------
InviteRow == [token : Requests \cup {None}, role : Role \ {"OWNER"}, by : Users,
              accepted : BOOLEAN, expired : BOOLEAN]

TypeOK ==
  /\ registered \subseteq Users
  /\ DOMAIN member \subseteq Users /\ \A u \in DOMAIN member : member[u] \in MemberRow
  /\ DOMAIN invite \subseteq Users /\ \A e \in DOMAIN invite : invite[e] \in InviteRow
  /\ mailed \subseteq Requests /\ audited \subseteq Requests
  /\ jobs \subseteq [from : Requests, to : Users]
  /\ pc \in [Requests -> {"new", "lookup", "target", "select", "write", "burn", "invite",
                          "mail", "audit", "notify", "commit", "done"}]
  /\ tx \in [Requests -> {"none", "open", "committed", "aborted"}]

\* A step of r commits its transaction.
Commits(r) == tx[r] = "open" /\ tx'[r] = "committed"

\* addMember: "a one-time accept link".  Once an acceptance has committed, nobody
\* who opens its link from then on gets in by it, however often the address is
\* invited again and whichever of those invitations roll back.
UsedLinkIsSpent ==
  \A r \in Requests, e \in DOMAIN invite :
    tx[r] = "committed" /\ call[r].op = "accept" /\ call[r].who = e
      /\ call[r].token = invite[e].token => invite[e].accepted

\* updateMemberRole and removeMember refuse owners by a row they read before they
\* write.  Still no owner is ever demoted or removed by them: an owner's role
\* changes only by an invitation of the owner's own address.
OwnersOnlyInvitedAway ==
  [][\A u \in DOMAIN member :
        member[u].role = "OWNER" /\ RowOf(u)' # member[u] =>
          \E r \in Requests : Commits(r) /\ call[r].who = u /\ call[r].op \in {"add", "accept"}]_vars

\* A change of role or a removal acts on the membership it was admitted and
\* checked for: somebody who was removed and has joined again meanwhile is not
\* thrown out, or given a role, by a request about the membership of before.
ActsOnWhatItChecked ==
  [][\A r \in Requests :
        Commits(r) /\ call[r].op \in {"update", "remove"} =>
          /\ call[r].who \in DOMAIN member
          /\ member[call[r].who].id = call[r].row.id
          /\ member[call[r].who].role # "OWNER"]_vars

\* Every request that was admitted is answered: acceptances hold a membership
\* while they wait for an invite, and no two requests ever wait for each other.
RequestsFinish == \A r \in Requests : pc[r] # "new" ~> pc[r] = "done"

\* addMember: "email a one-time accept link".  Then a link that has been used
\* does not make anybody a member again who was removed after using it.
LinkWorksOnce ==
  [][\A q, r \in Requests :
        /\ tx[q] = "committed" /\ call[q].op = "accept"
        /\ Commits(r) /\ call[r].op = "accept"
        /\ call[q].who = call[r].who /\ call[q].token = call[r].token
        => call[r].who \in DOMAIN member]_vars
=============================================================================
