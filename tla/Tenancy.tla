------------------------------ MODULE Tenancy ------------------------------
(***************************************************************************)
(* How the database keeps organizations apart: the transaction in which    *)
(* TenantRlsInterceptor runs a handler, the setting app.current_org_id     *)
(* that scopes it, the policies that read the setting, and the pool of     *)
(* connections that tenant requests share with everything that runs on the *)
(* plain client (the guard, the audit log, workers, sign-in).              *)
(*                                                                         *)
(* A statement has no WHERE clause here: it reaches every row the policies *)
(* show it.  The audit insert of a handler takes a second connection      *)
(* while its transaction keeps the first.                                  *)
(***************************************************************************)
EXTENDS Naturals, FiniteSets

CONSTANTS Orgs,        \* organizations
          Tenants,     \* requests of a route with :orgSlug
          SystemJobs,        \* work on the plain client
          OrgOf,       \* the organization of a tenant request's membership
          Connections, \* the pool
          Tables,      \* tables with rows of all organizations
          Policed,     \* those the migrations give the policy (not, for
                       \* one, comments and attachments, which hang on issues)
          Unset,       \* a setting nobody has made on the connection yet
          Empty,       \* '', what Postgres leaves of it after the transaction
          Free         \* a connection nobody uses

Workers == Tenants \cup SystemJobs

ASSUME TenancyAssumption ==
  /\ Policed \subseteq Tables /\ OrgOf \in [Tenants -> Orgs] /\ Tenants \cap SystemJobs = {}
  /\ Unset \notin Orgs /\ Empty \notin Orgs /\ Unset # Empty
  /\ Free \notin Workers \X {"tx", "plain"}

VARIABLES at,       \* where a worker is
          lent,     \* who uses a connection, and for what
          setting,  \* app.current_org_id on a connection
          reached,  \* history: table and organization of the rows tenant statements reached
          narrowed  \* history: workers with a plain statement that missed rows

tenancyVars == <<at, lent, setting, reached, narrowed>>

TenancyInit ==
  /\ at = [w \in Workers |-> "new"] /\ lent = [c \in Connections |-> Free]
  /\ setting = [c \in Connections |-> Unset]
  /\ reached = [r \in Tenants |-> {}] /\ narrowed = {}

\* app_current_org(), with Unset for NULL.
Current(g) == IF g = Empty THEN Unset ELSE g

\* The organizations whose rows a table shows, under tenant_isolation if it has it.
Visible(t, g) == {o \in Orgs : t \in Policed => Current(g) \in {Unset, o}}

\* Who uses which connection; a setting made LOCAL ends with the transaction.
Lend(c, w, as) == lent[c] = Free /\ lent' = [lent EXCEPT ![c] = <<w, as>>]
GiveBack(c) == lent' = [lent EXCEPT ![c] = Free]
AfterwardsItStays(c) == setting[c]  \* a mistake: the setting is the session's
Afterwards(c) == IF setting[c] = Unset THEN Unset ELSE Empty
Close(c) == GiveBack(c) /\ setting' = [setting EXCEPT ![c] = Afterwards(c)]

Go(w, place) == at' = [at EXCEPT ![w] = place]

\* A plain statement: the guard's query, an audit insert, anything of a job.
AwaitsPlain(w) == at[w] \in {"new", "auditing"} /\ \A c \in Connections : lent[c] # <<w, "plain">>
Borrow(w) ==
  /\ AwaitsPlain(w)
  /\ \E c \in Connections : Lend(c, w, "plain")
  /\ UNCHANGED <<at, setting, reached, narrowed>>
AnswerTo(w, place) ==
  \E c \in Connections :
    /\ lent[c] = <<w, "plain">> /\ GiveBack(c)
    /\ narrowed' = IF \A t \in Tables : Visible(t, setting[c]) = Orgs
                      THEN narrowed ELSE narrowed \cup {w}
    /\ Go(w, place) /\ UNCHANGED <<setting, reached>>

Work(w) == w \in SystemJobs /\ at[w] = "new" /\ AnswerTo(w, "ended")

\* TenantGuard finds the membership, or refuses.
Admit(w)  == w \in Tenants /\ at[w] = "new" /\ (AnswerTo(w, "queued") \/ AnswerTo(w, "ended"))

\* AuditService.record, which the handler awaits.
Audit(w)   == w \in Tenants /\ at[w] = "scoped" /\ Go(w, "auditing")
                /\ UNCHANGED <<lent, setting, reached, narrowed>>
Audited(w) == at[w] = "auditing" /\ AnswerTo(w, "audited")

\* No connection for a plain statement or for a transaction (maxWait) in time.
\* An audit insert that fails is swallowed.
PoolNeverFails == FALSE  \* a mistake: nobody gives up waiting
PoolIsEmpty == \A c \in Connections : lent[c] # Free
GiveUp(w) ==
  /\ PoolIsEmpty
  /\ \/ AwaitsPlain(w) /\ Go(w, IF at[w] = "auditing" THEN "audited" ELSE "ended")
     \/ at[w] = "queued" /\ Go(w, "ended")
  /\ UNCHANGED <<lent, setting, reached, narrowed>>

\* runWithTenant: the transaction begins, then its first statement sets the
\* organization, then the handler runs.
Begin(w) ==
  /\ at[w] = "queued" /\ Go(w, "begun")
  /\ \E c \in Connections : Lend(c, w, "tx")
  /\ UNCHANGED <<setting, reached, narrowed>>
SetOrg(w) ==
  /\ at[w] = "begun" /\ Go(w, "scoped")
  /\ \E c \in Connections :
       lent[c] = <<w, "tx">> /\ setting' = [setting EXCEPT ![c] = OrgOf[w]]
  /\ UNCHANGED <<lent, reached, narrowed>>

\* prisma.tenant: the transaction in the store of the request that asks.
StoreOfAnybody(w) ==  \* a mistake: one store for all requests
  LET open == {v \in Tenants : \E c \in Connections : lent[c] = <<v, "tx">>} IN
  IF open = {} THEN w ELSE CHOOSE v \in open : TRUE
Store(w) == w

\* A statement of the handler on prisma.tenant; when the transaction has timed
\* out it throws.
InHandler(w) == w \in Tenants /\ at[w] \in {"scoped", "audited"}
Statement(w) ==
  /\ InHandler(w)
  /\ \E c \in Connections :
       /\ lent[c] = <<Store(w), "tx">>
       /\ reached' = [reached EXCEPT ![w] = @ \cup
            {to \in Tables \X Orgs : to[2] \in Visible(to[1], setting[c])}]
  /\ UNCHANGED <<at, lent, setting, narrowed>>

\* The transaction's 15 s are over; the handler runs on.
Expire(w) ==
  /\ \E c \in Connections : lent[c] = <<w, "tx">> /\ Close(c)
  /\ IF at[w] = "begun" THEN Go(w, "ended") ELSE UNCHANGED at
  /\ UNCHANGED <<reached, narrowed>>

\* The handler returns or throws: commit, rollback, or an error if it is too late.
End(w) ==
  /\ InHandler(w) /\ Go(w, "ended")
  /\ \/ \E c \in Connections : lent[c] = <<w, "tx">> /\ Close(c)
     \/ /\ \A c \in Connections : lent[c] # <<w, "tx">>
        /\ UNCHANGED <<lent, setting>>
  /\ UNCHANGED <<reached, narrowed>>

TenancyStep(w) ==
  \/ Borrow(w) \/ Work(w) \/ Admit(w) \/ Audited(w) \/ GiveUp(w) \/ Begin(w) \/ SetOrg(w) \/ End(w)
TenancyNext == \E w \in Workers : TenancyStep(w) \/ Audit(w) \/ Statement(w) \/ Expire(w)

\* A worker that can go on does, or another one (fairness: WF of \E w : TenancyStep(w)).
TenancySpec == TenancyInit /\ [][TenancyNext]_tenancyVars

-----------------------------------------------------------------------------
(* Properties *)

\* Connections are lent to workers, one use each; a worker is at one place.
TenancyTypeOK ==
  /\ at \in [Workers -> {"new", "queued", "begun", "scoped", "auditing", "audited", "ended"}]
  /\ lent \in [Connections -> (Workers \X {"tx", "plain"}) \cup {Free}]
  /\ setting \in [Connections -> Orgs \cup {Unset, Empty}]
  /\ reached \in [Tenants -> SUBSET (Tables \X Orgs)] /\ narrowed \in SUBSET Workers

\* A handler that forgot every WHERE clause still reaches, in the tables that have
\* the policy, only the rows of the organization it was admitted to, whoever used
\* the connection before and whoever shares the pool (migration tenant_rls).
StaysInside ==
  \A r \in Tenants : \A to \in reached[r] : to[1] \in Policed => to[2] = OrgOf[r]

\* What runs on the plain client sees all organizations, on a connection fresh
\* or used: the setting never outlives its transaction, committed or timed out
\* (prisma.service.ts:36-43).
PlainSeesAll == narrowed = {}

\* Every request and job that was begun ends, even when all connections are held by handlers
\* that wait for a second one to write their audit row (audit.service.ts:26-43):
\* those give up and go on.
WorkersEnd ==
  (\E w \in Workers : at[w] \notin {"new", "ended"})
    ~> (\A w \in Workers : at[w] \in {"new", "ended"})
=============================================================================
