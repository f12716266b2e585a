------------------------------- MODULE Tokens -------------------------------
(***************************************************************************)
(* The refresh-token store: TokenService (issueForUser, rotate, revoke,    *)
(* createRefresh) and the AuthService / AuthController handlers that call  *)
(* it.  Every prisma call is a statement of its own, committed on its own: *)
(* the /auth routes run outside the tenant transaction.  So a handler is a *)
(* sequence of atomic steps, one per statement, and other handlers run     *)
(* between them.                                                           *)
(*                                                                         *)
(* A token stands for its SHA-256 hash, the key of its row.  Time is the   *)
(* event that a row passes its expiresAt.                                  *)
(***************************************************************************)
EXTENDS Naturals

CONSTANTS Tokens,      \* raw tokens randomBytes(48) can still produce: the bound of a run
          Families,    \* ids nanoid() can still produce
          Users,       \* users with an account
          Requests,    \* handlers that run at the same time
          Unreliable,  \* handlers that may die between two statements
          None         \* "no value"

ASSUME UnreliableAssumption == Unreliable \subseteq Requests

VARIABLES row,         \* the table: stored token -> [family, user, revoked, expired]
          pc,          \* the statement a handler runs next
          presented,   \* the token a handler was given, once it has looked it up
          grant,       \* the [family, user] a handler carries to its next statement
          condemned,   \* history: families whose revocation statement has run
          forked       \* history: families in which an already revoked row was consumed

vars == <<row, pc, presented, grant, condemned, forked>>

Row   == [family : Families, user : Users, revoked : BOOLEAN, expired : BOOLEAN]
Grant == [family : Families, user : Users]

Stored == DOMAIN row
InFamily(f) == {t \in Stored : row[t].family = f}
Live(t) == ~row[t].revoked /\ ~row[t].expired
GrantOf(t) == [family |-> row[t].family, user |-> row[t].user]

\* Handlers between a successful lookup (or login) and the end of createRefresh.
Consuming == {r \in Requests : pc[r] = "consume"}
Creating  == {r \in Requests : pc[r] = "create"}
Holders(f) == {r \in Consuming \cup Creating : grant[r].family = f}

Init ==
  /\ row = [t \in {} |-> None]
  /\ pc = [r \in Requests |-> "idle"]
  /\ presented = [r \in Requests |-> None]
  /\ grant = [r \in Requests |-> None]
  /\ condemned = {}
  /\ forked = {}

\* The handler of r ends: it has answered, thrown, or died.
End(r) ==
  /\ pc' = [pc EXCEPT ![r] = "idle"]
  /\ presented' = [presented EXCEPT ![r] = None]
  /\ grant' = [grant EXCEPT ![r] = None]

Enter(r, label, t, g) ==
  /\ pc' = [pc EXCEPT ![r] = label]
  /\ presented' = [presented EXCEPT ![r] = t]
  /\ grant' = [grant EXCEPT ![r] = g]

LoginForNobody(r, u, f) ==  \* a mistake: the user of the session is not loaded
  /\ pc[r] = "idle"
  /\ InFamily(f) = {} /\ Holders(f) = {}
  /\ Enter(r, "create", None, [family |-> f, user |-> None])
  /\ UNCHANGED <<row, condemned, forked>>

LoginInUsedFamily(r, u, f) ==  \* a mistake: the family id is not a new one
  /\ pc[r] = "idle"
  /\ Enter(r, "create", None, [family |-> f, user |-> u])
  /\ UNCHANGED <<row, condemned, forked>>

\* login / register: the credentials were right, nanoid() picks a family.
Login(r, u, f) ==
  /\ pc[r] = "idle"
  /\ InFamily(f) = {} /\ Holders(f) = {}
  /\ Enter(r, "create", None, [family |-> f, user |-> u])
  /\ UNCHANGED <<row, condemned, forked>>

RotateUnchecked(r, t) ==  \* a mistake: revokedAt and expiresAt are not looked at
  /\ pc[r] = "idle"
  /\ t \in Stored
  /\ Enter(r, "consume", t, GrantOf(t))
  /\ UNCHANGED <<row, condemned, forked>>

\* rotate: findUnique, then the check of the row that was read.  A token with
\* no row answers 401 and changes nothing.
RotateLookup(r, t) ==
  /\ pc[r] = "idle"
  /\ t \in Stored
  /\ Enter(r, IF Live(t) THEN "consume" ELSE "revoke", t, GrantOf(t))
  /\ UNCHANGED <<row, condemned, forked>>

\* logout -> revoke: findUnique; a token with no row returns at once.
LogoutLookup(r, t) ==
  /\ pc[r] = "idle"
  /\ t \in Stored
  /\ Enter(r, "revoke", t, GrantOf(t))
  /\ UNCHANGED <<row, condemned, forked>>

\* updateMany where familyId = f and revokedAt = null: the statement that both
\* the reuse branch of rotate and revoke end with.
RevokeFamily(r) ==
  /\ pc[r] = "revoke"
  /\ LET f == grant[r].family
     IN  /\ row' = [t \in Stored |->
                      IF row[t].family = f THEN [row[t] EXCEPT !.revoked = TRUE]
                                           ELSE row[t]]
         /\ condemned' = condemned \cup {f}
  /\ End(r)
  /\ UNCHANGED forked

ConsumeNothing(r) ==  \* a mistake: the presented token is not revoked
  /\ pc[r] = "consume"
  /\ Enter(r, "create", None, grant[r])
  /\ UNCHANGED <<row, condemned, forked>>

\* rotate: update where id, on the row as it is now, not as it was looked up.
Consume(r) ==
  /\ pc[r] = "consume"
  /\ LET t == presented[r]
     IN  /\ row' = [row EXCEPT ![t].revoked = TRUE]
         /\ forked' = IF row[t].revoked THEN forked \cup {row[t].family} ELSE forked
  /\ Enter(r, "create", None, grant[r])
  /\ UNCHANGED condemned

\* createRefresh: insert the row of a new random token and answer with it.
CreateRefresh(r, t) ==
  /\ pc[r] = "create"
  /\ t \notin Stored
  /\ row' = [s \in Stored \cup {t} |->
               IF s = t THEN [family  |-> grant[r].family, user    |-> grant[r].user,
                              revoked |-> FALSE,           expired |-> FALSE]
                        ELSE row[s]]
  /\ End(r)
  /\ UNCHANGED <<condemned, forked>>

\* A statement throws, or the process dies: what has been written stays.
Fail(r) ==
  /\ r \in Unreliable
  /\ pc[r] # "idle"
  /\ End(r)
  /\ UNCHANGED <<row, condemned, forked>>

\* A row passes its expiresAt.
Expire(t) ==
  /\ t \in Stored
  /\ ~row[t].expired
  /\ row' = [row EXCEPT ![t].expired = TRUE]
  /\ UNCHANGED <<pc, presented, grant, condemned, forked>>

\* The steps a handler takes once its request has been accepted.
Continue(r) ==
  \/ RevokeFamily(r)
  \/ Consume(r)
  \/ \E t \in Tokens : CreateRefresh(r, t)

Next ==
  \/ \E r \in Requests, u \in Users, f \in Families : Login(r, u, f)
  \/ \E r \in Requests, t \in Tokens : RotateLookup(r, t)
  \/ \E r \in Requests, t \in Tokens : LogoutLookup(r, t)
  \/ \E r \in Requests : Continue(r)
  \/ \E r \in Requests : Fail(r)
  \/ \E t \in Tokens : Expire(t)

Spec == Init /\ [][Next]_vars

-----------------------------------------------------------------------------
TypeOK ==
  /\ Stored \subseteq Tokens
  /\ row \in [Stored -> Row]
  /\ pc \in [Requests -> {"idle", "revoke", "consume", "create"}]
  /\ presented \in [Requests -> Tokens \cup {None}]
  /\ grant \in [Requests -> Grant \cup {None}]
  /\ condemned \subseteq Families
  /\ forked \subseteq Families

\* What a handler carries is about the row it looked up, and rows never change
\* owner: a handler on its way to createRefresh mints for the right user.
Carried ==
  \A r \in Requests :
    /\ pc[r] # "idle" => grant[r] \in Grant
    /\ pc[r] = "consume" => presented[r] \in Stored /\ grant[r] = GrantOf(presented[r])

\* Every token ever stored in a family, and every token about to be stored in
\* it, belongs to one and the same user: a rotation racing a login, a logout or
\* another rotation never mints a token of someone else's session
\* (TokenService.rotate passes existing.user and existing.familyId on).
FamilyHasOneUser ==
  /\ \A s, t \in Stored : row[s].family = row[t].family => row[s].user = row[t].user
  /\ \A t \in Stored, r \in Creating :
       row[t].family = grant[r].family => row[t].user = grant[r].user
  /\ \A q, r \in Creating : grant[q].family = grant[r].family => grant[q].user = grant[r].user

\* Rotation hands the session over, it does not copy it: unless a handler
\* consumed a row that another had already revoked, a family has at most one
\* unrevoked token, counting the one a handler is about to insert.
SingleHolder ==
  \A f \in Families \ forked :
    LET unrevoked == {t \in InFamily(f) : ~row[t].revoked}
        creating  == {r \in Creating : grant[r].family = f}
    IN  /\ \A s, t \in unrevoked : s = t
        /\ \A q, r \in creating : q = r
        /\ unrevoked = {} \/ creating = {}

\* A family is over when no token of it is live and no handler that found one
\* live is still running.
Active(f) == Holders(f) # {} \/ \E t \in InFamily(f) : Live(t)

LifePhase == [f \in Families |->
                IF InFamily(f) = {} THEN "unused" ELSE IF Active(f) THEN "active" ELSE "over"]
LifeOwner == [f \in Families |->
                IF InFamily(f) = {} THEN None ELSE row[CHOOSE t \in InFamily(f) : TRUE].user]

Life == INSTANCE SessionLife WITH phase <- LifePhase, owner <- LifeOwner

\* A session begins once, for one user, and never comes back after it is over:
\* once no token of the family is live and nobody is half-way through rotating
\* one, no presented token, however old or however often it is presented,
\* makes the family live again.
SessionNeverReturns == Life!LifeSpec

\* The schema's comment on RefreshToken: "A token is single-use: on refresh we
\* revoke the old and issue a new one (rotation)".  Then a family never has two
\* tokens that both still work.
TokensAreSingleUse ==
  \A f \in Families : \A s, t \in InFamily(f) : Live(s) /\ Live(t) => s = t

\* TokenService: "If a revoked token is presented again (reuse), the whole
\* family is revoked", and revoke: "Revoke the family a token belongs to".
\* Then nothing of a family works after its revocation statement has run.
RevokedFamilyIsDead ==
  \A f \in condemned : \A t \in InFamily(f) : ~Live(t)
=============================================================================
