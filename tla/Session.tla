------------------------------ MODULE Session ------------------------------
(***************************************************************************)
(* The session as the tabs of one browser keep it: lib/api.ts (request,    *)
(* refreshAccessToken, redirectToLogin), the silent restore of Providers,  *)
(* the login form and useSignOut, over the refresh-token store of Tokens   *)
(* and the cookie the auth controller sets.                                *)
(*                                                                         *)
(* All tabs share one cookie; an access token belongs to one tab and goes  *)
(* with its page.  A request carries the cookie as it was when it was      *)
(* sent, and the answer sets the cookie when it arrives: in between the    *)
(* handler takes its steps, other tabs go on, the answer may be lost and   *)
(* the page may be left.  No token gets so old that it expires.             *)
(***************************************************************************)
EXTENDS Tokens, FiniteSets

CONSTANTS Tabs,      \* tabs of the browser
          MaxMishaps \* page loads, broken connections and dead handlers: the bound of a run

Page == [at   : {"login", "app"},
         next : {"restore", "refresh", "again", "ready"},
         user : Users \cup {None}]
Call == [tab    : Tabs \cup {None},     \* None: nobody waits for the answer any more
         kind   : {"restore", "refresh", "again", "login", "logout"},
         sent   : Tokens \cup {None},
         result : {"wire", "running", "refused", "done", "failed"} \cup Tokens]

ASSUME SessionAssumption ==
  /\ None \notin Tokens \cup Families \cup Tabs \cup Call /\ MaxMishaps \in Nat
  /\ Tokens \cap {"wire", "running", "refused", "done", "failed"} = {}

VARIABLES cookie,     \* the refresh cookie, or None
          page,       \* tab -> [at, next, user]: the page, what Providers waits for, whose token
          call,       \* handler -> the request it serves: [tab, kind, sent, result], or None
          mishaps,    \* page loads asked for, connections broken and handlers dead, so far
          history     \* families: lost, overlapped, crossed, leaving, left (see below)

sessionVars == <<cookie, page, call, mishaps, history>>

\* Handlers, random tokens and random families are interchangeable: where a new
\* one is taken it does not matter which.
AnyOf(S) == CHOOSE x \in S : TRUE

Calls == {r \in Requests : call[r] # None}
Of(tab) == {r \in Calls : call[r].tab = tab}
Answered(r) == call[r].result \notin {"wire", "running"}
Unused(f) == InFamily(f) = {} /\ Holders(f) = {}
FamilyOf(t) == IF t \in Stored THEN {row[t].family} ELSE {}

\* A tab whose splash is up and whose next request is not yet sent.
Owing == {tab \in Tabs : page[tab].next # "ready" /\ Of(tab) = {}}

\* Bounds: every request that is under way, owed, or asked for by the answer to one
\* of these, can be given a new token, with n more to spare, and every login a new
\* family.
Twice   == {tab \in Tabs : \/ page[tab].next \in {"restore", "refresh"}
                           \/ \E r \in Of(tab) : call[r].kind = "refresh"}
Room(n) == Cardinality(Tokens \ Stored)
             >= Cardinality({r \in Calls : call[r].kind # "logout" /\ call[r].result \notin Tokens})
                + Cardinality(Owing) + Cardinality(Twice) + n
RoomToLogIn == Cardinality({f \in Families : Unused(f)})
                 > Cardinality({r \in Calls : call[r].kind = "login"})

SessionInit ==
  /\ Init
  /\ cookie = None
  /\ page = [tab \in Tabs |-> [at |-> "login", next |-> "ready", user |-> None]]
  /\ call = [r \in Requests |-> None]
  /\ mishaps = 0
  /\ history = [lost       |-> {},  \* the browser missed one of their tokens
                overlapped |-> {},  \* two tabs presented the same token at once
                crossed    |-> {},  \* a refresh and a sign-out were under way at once
                leaving    |-> {},  \* a sign-out was sent for them
                left       |-> {}]  \* ... and answered

\* tab sends a request with the cookie as it is; the history notes what else is
\* under way with this cookie and this family.
Send(r, tab, kind) ==
  LET fs        == FamilyOf(cookie)
      underWay  == {q \in Calls : call[q].kind # "login" /\ FamilyOf(call[q].sent) = fs}
      rivals    == {q \in underWay : call[q].sent = cookie /\ call[q].tab # tab}
      crossings == {q \in underWay : (call[q].kind = "logout") # (kind = "logout")}
  IN  /\ r \notin Calls /\ pc[r] = "idle"
      /\ r = AnyOf({q \in Requests \ Calls : pc[q] = "idle"})
      /\ call' = [call EXCEPT ![r] =
                    [tab |-> tab, kind |-> kind, sent |-> cookie, result |-> "wire"]]
      /\ history' = IF kind = "login" THEN history ELSE
           [history EXCEPT !.overlapped = @ \cup (IF rivals # {} THEN fs ELSE {}),
                           !.crossed    = @ \cup (IF crossings # {} THEN fs ELSE {}),
                           !.leaving    = @ \cup (IF kind = "logout" THEN fs ELSE {})]
      /\ UNCHANGED <<vars, cookie, mishaps>>

Blank(at) == [at |-> at, next |-> "restore", user |-> None]

\* The page of a tab goes: its requests go on with nobody to hear their answers,
\* and an answer that has not been heard is lost with its token.
Abandoned(tab) == [r \in Requests |->
                     IF r \notin Of(tab) THEN call[r]
                     ELSE IF Answered(r) THEN None ELSE [call[r] EXCEPT !.tab = None]]
Unheard(tab) == UNION {FamilyOf(call[r].result) : r \in Of(tab)}

\* The user opens a page, or loads one again: the access token is gone.
Reload(tab, at) ==
  /\ Room(2) /\ mishaps < MaxMishaps
  /\ mishaps' = mishaps + 1
  /\ page' = [page EXCEPT ![tab] = Blank(at)]
  /\ call' = Abandoned(tab)
  /\ history' = [history EXCEPT !.lost = @ \cup Unheard(tab)]
  /\ UNCHANGED <<vars, cookie>>

\* Providers: the refresh of a page that has just been loaded; the one request
\* makes by itself when that was answered 401; and, when this one brought a
\* token, the first once more (retry = false).
Restore(r, tab) ==
  /\ tab \in Owing
  /\ Send(r, tab, page[tab].next)
  /\ UNCHANGED page

RefreshEachTime(r, tab) ==  \* a mistake: a 401 does not join the refresh under way
  /\ Room(1) /\ page[tab].next = "ready"
  /\ Send(r, tab, "refresh")
  /\ UNCHANGED page

\* An API request is answered 401 (no access token, one that has run out, or a
\* wrong password): refreshAccessToken, unless one is under way in this tab.
Unauthorized(r, tab) ==
  /\ Room(2) /\ page[tab].next = "ready"
  /\ \A q \in Of(tab) : call[q].kind # "refresh"
  /\ Send(r, tab, "refresh")
  /\ UNCHANGED page

\* The login form and useSignOut: one submit, one sign-out at a time.
Submit(r, tab, kind) ==
  /\ page[tab].next = "ready"
  /\ \/ kind = "login" /\ page[tab].at = "login" /\ Room(1) /\ RoomToLogIn
     \/ kind = "logout" /\ page[tab].at = "app"
  /\ \A q \in Of(tab) : call[q].kind # kind
  /\ Send(r, tab, kind)
  /\ UNCHANGED page

-----------------------------------------------------------------------------
\* The handler of r has answered; without a tab to hear it the call is over.
Answer(r, result) ==
  call' = [call EXCEPT ![r] = IF @.tab = None THEN None ELSE [@ EXCEPT !.result = result]]

LoseIf(condition, f) ==
  history' = IF condition THEN [history EXCEPT !.lost = @ \cup {f}] ELSE history

\* The request reaches its handler.  Without a cookie refresh answers 401 and
\* logout has nothing to revoke.
Arrive(r) ==
  /\ r \in Calls /\ call[r].result = "wire"
  /\ \/ /\ \/ /\ call[r].kind = "login"
              /\ \E u \in Users, f \in Families :
                   Login(r, u, f) /\ f = AnyOf({g \in Families : Unused(g)})
           \/ call[r].kind \in {"restore", "refresh", "again"} /\ RotateLookup(r, call[r].sent)
           \/ call[r].kind = "logout" /\ LogoutLookup(r, call[r].sent)
        /\ call' = [call EXCEPT ![r].result = "running"]
     \/ /\ call[r].kind # "login" /\ call[r].sent = None
        /\ Answer(r, IF call[r].kind = "logout" THEN "done" ELSE "refused")
        /\ UNCHANGED vars
  /\ UNCHANGED <<cookie, page, mishaps, history>>

\* The statements of the handler, up to its answer.
Handle(r) ==
  /\ r \in Calls
  /\ \/ Consume(r) /\ UNCHANGED <<call, history>>
     \/ /\ RevokeFamily(r)
        /\ Answer(r, IF call[r].kind = "logout" THEN "done" ELSE "refused")
        /\ UNCHANGED history
     \/ \E t \in Tokens :
          /\ CreateRefresh(r, t) /\ t = AnyOf(Tokens \ Stored)
          /\ Answer(r, t)
          /\ LoseIf(call[r].tab = None, grant[r].family)
  /\ UNCHANGED <<cookie, page, mishaps>>

\* The handler dies: a token it has consumed has no successor.
HandlerFails(r) ==
  /\ r \in Calls /\ mishaps < MaxMishaps
  /\ mishaps' = mishaps + 1
  /\ Fail(r)
  /\ Answer(r, "failed")
  /\ LoseIf(pc[r] = "create", grant[r].family)
  /\ UNCHANGED <<cookie, page>>

-----------------------------------------------------------------------------
CookieIsKept(result) ==  \* a mistake: logout does not clear the cookie
  IF result \in Tokens THEN result ELSE cookie

\* setRefreshCookie and clearCookie, as the browser obeys them.
CookieAfter(result) ==
  CASE result \in Tokens -> result
    [] result = "done"   -> None
    [] OTHER             -> cookie

SplashStays(p, kind, result) ==  \* a mistake: only a restored session ends the splash
  CASE result \in Tokens  -> [at   |-> IF kind = "login" THEN "app" ELSE p.at,
                              next |-> "ready", user |-> row[result].user]
    [] OTHER -> p

\* A refresh without a token sends the tab to /login by a page load, unless it is
\* there or restoring.
Redirects(p, kind, result) ==
  kind = "refresh" /\ result \notin Tokens /\ p.next = "ready" /\ p.at = "app"

\* What the tab makes of an answer.  A token is stored.  A restore that was
\* refused goes on to request's own refresh; when that brings a token the restore
\* is sent again, and its second answer, whatever it is, ends the splash, as an
\* error does.  Signing out ends at /login, whatever the answer.
PageAfter(p, kind, result) ==
  CASE kind = "logout" -> [at |-> "login", next |-> "ready", user |-> None]
    [] kind # "logout" /\ result \in Tokens ->
         [at   |-> IF kind = "login" THEN "app" ELSE p.at,
          next |-> IF kind = "refresh" /\ p.next = "refresh" THEN "again" ELSE "ready",
          user |-> row[result].user]
    [] kind = "login" /\ result \notin Tokens -> p
    [] kind = "restore" /\ result \notin Tokens ->
         [p EXCEPT !.next = IF result = "refused" THEN "refresh" ELSE "ready"]
    [] kind = "again" /\ result \notin Tokens -> [p EXCEPT !.next = "ready"]
    [] kind = "refresh" /\ result \notin Tokens ->
         IF Redirects(p, kind, result) THEN Blank("login") ELSE [p EXCEPT !.next = "ready"]

\* The answer reaches its tab, which may leave its page for it.
Deliver(r) ==
  /\ r \in Calls /\ call[r].tab # None /\ Answered(r)
  /\ LET c      == call[r]
         leaves == Redirects(page[c.tab], c.kind, c.result)
     IN  /\ cookie' = CookieAfter(c.result)
         /\ page' = [page EXCEPT ![c.tab] = PageAfter(@, c.kind, c.result)]
         /\ history' =
              [history EXCEPT
                 !.left = IF c.kind = "logout" /\ c.result = "done"
                          THEN @ \cup FamilyOf(c.sent) ELSE @,
                 !.lost = IF leaves THEN @ \cup Unheard(c.tab) ELSE @]
         /\ call' = [(IF leaves THEN Abandoned(c.tab) ELSE call) EXCEPT ![r] = None]
  /\ UNCHANGED <<vars, mishaps>>

\* The connection breaks: an error to the tab, whatever the handler goes on to do.
Break(r) ==
  /\ Room(1) /\ mishaps < MaxMishaps
  /\ mishaps' = mishaps + 1
  /\ r \in Calls /\ call[r].tab # None /\ ~Answered(r)
  /\ LET c      == call[r]
         leaves == Redirects(page[c.tab], c.kind, "failed")
     IN  /\ page' = [page EXCEPT ![c.tab] = PageAfter(@, c.kind, "failed")]
         /\ call' = IF leaves THEN Abandoned(c.tab) ELSE [call EXCEPT ![r].tab = None]
         /\ history' = [history EXCEPT !.lost = IF leaves THEN @ \cup Unheard(c.tab) ELSE @]
  /\ UNCHANGED <<vars, cookie>>

Serve(r) == Arrive(r) \/ Handle(r) \/ Deliver(r)

SessionNext ==
  \/ \E tab \in Tabs, at \in {"login", "app"} : Reload(tab, at)
  \/ \E r \in Requests, tab \in Tabs : Restore(r, tab)
  \/ \E r \in Requests, tab \in Tabs : Unauthorized(r, tab)
  \/ \E r \in Requests, tab \in Tabs, kind \in {"login", "logout"} : Submit(r, tab, kind)
  \/ \E r \in Requests : Serve(r)
  \/ \E r \in Requests : HandlerFails(r)
  \/ \E r \in Requests : Break(r)

allVars == <<vars, sessionVars>>
SessionSpec == SessionInit /\ [][SessionNext]_allVars

\* A request that was sent is served and answered, and a page that is loaded
\* asks for its session (strongly fair, as only the bound on handlers can keep one
\* from it); users and faults owe nothing.
SessionFairSpec ==
  /\ SessionSpec
  /\ \A r \in Requests : WF_allVars(Serve(r))
  /\ \A tab \in Tabs : SF_allVars(\E r \in Requests : Restore(r, tab))

-----------------------------------------------------------------------------
SessionTypeOK ==
  /\ TypeOK
  /\ cookie \in Stored \cup {None}
  /\ page \in [Tabs -> Page]
  /\ call \in [Requests -> Call \cup {None}]
  /\ mishaps \in 0..MaxMishaps
  /\ \A h \in DOMAIN history : history[h] \subseteq Families

\* Reuse detection ends a session only for a reason: a family is revoked because
\* somebody signed out of it, the browser missed an answer, or two tabs
\* presented the same token at once.  One tab, however many
\* of its requests are answered 401 together and however its page is loaded
\* again once they are answered, never presents a spent token
\* (api.ts: `refreshing ??=`).
ThrownOutForAReason ==
  condemned \subseteq history.leaving \cup history.lost \cup history.overlapped

\* After a sign-out that was answered the session is over for the whole browser:
\* the cookie is not of its family and no token of it is left, unless a refresh
\* of the family was under way with the sign-out.
SignedOutIsOver ==
  \A f \in history.left \ history.crossed :
    /\ cookie \notin InFamily(f)
    /\ \A t \in InFamily(f) : row[t].revoked

\* A tab that is restoring its session or refreshing it gets to an end of it:
\* the splash goes, with a session or without, whatever fails
\* (providers.tsx: finally; api.ts: catch, finally).
TabsSettle ==
  \A tab \in Tabs :
    page[tab].next # "ready" \/ (\E r \in Of(tab) : call[r].kind = "refresh")
      ~> page[tab].next = "ready" /\ \A r \in Of(tab) : call[r].kind # "refresh"
=============================================================================
