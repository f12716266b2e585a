--------------------------- MODULE SessionProofs ---------------------------
(***************************************************************************)
(* The theorems about Session, for every set of tabs, handlers, tokens,    *)
(* families and users.  A step of a browser is a step of the token store,  *)
(* so the theorems of TokensProofs hold of a session too; on top of them   *)
(* an inductive invariant says what the requests under way know of the     *)
(* store (SInv), and why reuse detection cannot meet a good session        *)
(* (Rotating), and what a sign-out leaves (SigningOut).                    *)
(***************************************************************************)
EXTENDS Session, TokensProofs

Refreshing == {"restore", "refresh", "again"}
Refreshes  == {r \in Calls : call[r].kind \in Refreshing}

\* Families whose session may be over, for a reason.
Excused  == history.leaving \cup history.lost \cup history.overlapped
Clean(t) == t \in Stored /\ row[t].family \notin Excused

History == [lost : SUBSET Families, overlapped : SUBSET Families,
            crossed : SUBSET Families, leaving : SUBSET Families, left : SUBSET Families]

Types ==
  /\ Inv
  /\ cookie \in Stored \cup {None}
  /\ page \in [Tabs -> Page]
  /\ call \in [Requests -> Call \cup {None}]
  /\ mishaps \in 0..MaxMishaps
  /\ history \in History

\* What a request under way knows of the store.
CallOK(r) ==
  /\ call[r].sent \in Stored \cup {None}
  /\ call[r].result \in Tokens => call[r].result \in Stored
  /\ call[r].kind = "logout" => FamilyOf(call[r].sent) \subseteq history.leaving
  /\ call[r].result = "done" => call[r].kind = "logout"
  /\ call[r].result \in Tokens => call[r].kind # "logout"
  /\ call[r].result \in Tokens /\ call[r].kind \in Refreshing =>
       call[r].sent \in Stored /\ row[call[r].sent].family = row[call[r].result].family
CallsOK == \A r \in Calls : CallOK(r)

\* ... and what its handler carries.
RunOK(r) ==
  pc[r] # "idle" =>
    /\ r \in Calls /\ call[r].result = "running"
    /\ pc[r] = "consume" => call[r].kind \in Refreshing /\ presented[r] = call[r].sent
    /\ pc[r] = "create" => call[r].kind # "logout"
    /\ pc[r] = "revoke" => call[r].kind # "login"
    /\ call[r].kind # "login" =>
         call[r].sent \in Stored /\ grant[r].family = row[call[r].sent].family
Running == \A r \in Requests : RunOK(r)

-----------------------------------------------------------------------------
(* Fields of the records, and what each change of one makes of it.         *)

LEMMA CallFields ==
  ASSUME NEW c \in Call
  PROVE  /\ c # None
         /\ c.tab \in Tabs \cup {None} /\ c.sent \in Tokens \cup {None}
         /\ c.kind \in {"restore", "refresh", "again", "login", "logout"}
         /\ c.result \in {"wire", "running", "refused", "done", "failed"} \cup Tokens
         /\ [c EXCEPT !.tab = None] \in Call
         /\ [c EXCEPT !.tab = None].kind = c.kind /\ [c EXCEPT !.tab = None].sent = c.sent
         /\ [c EXCEPT !.tab = None].result = c.result /\ [c EXCEPT !.tab = None].tab = None
<1>1. c # None
  BY SessionAssumption
<1> QED
  BY <1>1 DEF Call

LEMMA ResultFields ==
  ASSUME NEW c \in Call,
         NEW x \in {"wire", "running", "refused", "done", "failed"} \cup Tokens
  PROVE  /\ [c EXCEPT !.result = x] \in Call
         /\ [c EXCEPT !.result = x].kind = c.kind /\ [c EXCEPT !.result = x].sent = c.sent
         /\ [c EXCEPT !.result = x].tab = c.tab /\ [c EXCEPT !.result = x].result = x
  BY DEF Call

\* A result that is no token is none of the words, and None is no token.
LEMMA WordsAreNoTokens ==
  /\ None \notin Tokens /\ None \notin Tabs /\ None \notin Call
  /\ \A w \in {"wire", "running", "refused", "done", "failed"} : w \notin Tokens
  BY SessionAssumption

LEMMA CallTyped ==
  ASSUME Types, NEW r \in Calls
  PROVE  r \in Requests /\ call[r] \in Call
  BY DEF Types, Calls

-----------------------------------------------------------------------------
(* A step of the browser is a step of the token store.                     *)

LEMMA SessionSteps ==
  ASSUME Inv, [SessionNext]_allVars
  PROVE  [Next]_vars
<1>0. Stored \subseteq Tokens
  BY DEF Inv, TypeOK
<1>1. ASSUME NEW r \in Requests, Arrive(r)
      PROVE  [Next]_vars
  BY <1>0, <1>1 DEF Arrive, RotateLookup, LogoutLookup, Next
<1>2. ASSUME NEW r \in Requests, Handle(r)
      PROVE  [Next]_vars
  BY <1>2 DEF Handle, Next, Continue
<1>3. ASSUME NEW r \in Requests, HandlerFails(r)
      PROVE  [Next]_vars
  BY <1>3 DEF HandlerFails, Next
<1>4. ASSUME NEW r, NEW tab, NEW kind, Send(r, tab, kind)
      PROVE  UNCHANGED vars
  BY <1>4 DEF Send
<1> QED
  BY <1>1, <1>2, <1>3, <1>4
  DEF SessionNext, Serve, Deliver, Break, Reload, Restore, Unauthorized, Submit, allVars

\* The token store of a browser's session takes the steps of the token store
\* alone: what is proved of TokenService holds whatever tabs do
\* (lib/api.ts, over auth.controller.ts and token.service.ts).
THEOREM SessionsUseTheStore == SessionSpec => Spec
<1>1. SessionInit => Init /\ Inv
  BY InvInit DEF SessionInit
<1>2. Inv /\ [SessionNext]_allVars => [Next]_vars
  BY SessionSteps
<1>3. SessionSpec => []Inv
  BY <1>1, <1>2, InvNext, PTL DEF SessionSpec
<1> QED
  BY <1>1, <1>2, <1>3, PTL DEF SessionSpec, Spec

-----------------------------------------------------------------------------
(* What one step makes of the requests under way.                          *)

\* The three actions that send a request.
Sends(r, tab, kind) ==
  \/ Restore(r, tab) /\ kind = page[tab].next
  \/ Unauthorized(r, tab) /\ kind = "refresh"
  \/ Submit(r, tab, kind) /\ kind \in {"login", "logout"}

Fixed(r) == /\ r \in Calls /\ r \in Calls'
            /\ call'[r].kind = call[r].kind /\ call'[r].sent = call[r].sent

LEMMA StepCases ==
  ASSUME page \in [Tabs -> Page], [SessionNext]_allVars
  PROVE  \/ \E r \in Requests, tab \in Tabs,
               kind \in {"restore", "refresh", "again", "login", "logout"} : Sends(r, tab, kind)
         \/ \E tab \in Tabs, at \in {"login", "app"} : Reload(tab, at)
         \/ \E r \in Requests : Arrive(r)
         \/ \E r \in Requests : Handle(r)
         \/ \E r \in Requests : HandlerFails(r)
         \/ \E r \in Requests : Deliver(r)
         \/ \E r \in Requests : Break(r)
         \/ UNCHANGED allVars
<1>1. ASSUME NEW r \in Requests, NEW tab \in Tabs, Restore(r, tab), page \in [Tabs -> Page]
      PROVE  page[tab].next \in {"restore", "refresh", "again"} /\ Sends(r, tab, page[tab].next)
  BY <1>1 DEF Sends, Restore, Owing, Page
<1>2. ASSUME NEW r \in Requests, NEW tab \in Tabs, Unauthorized(r, tab)
      PROVE  Sends(r, tab, "refresh")
  BY <1>2 DEF Sends
<1>3. ASSUME NEW r \in Requests, NEW tab \in Tabs, NEW kind \in {"login", "logout"},
             Submit(r, tab, kind)
      PROVE  Sends(r, tab, kind)
  BY <1>3 DEF Sends
<1> QED
  BY <1>1, <1>2, <1>3 DEF SessionNext, Serve

LEMMA SendEffect ==
  ASSUME Types, NEW r \in Requests, NEW tab \in Tabs, NEW kind, Sends(r, tab, kind)
  PROVE  /\ kind \in {"restore", "refresh", "again", "login", "logout"}
         /\ r \notin Calls /\ pc[r] = "idle"
         /\ call' \in [Requests -> Call \cup {None}]
         /\ r \in Calls'
         /\ call'[r].tab = tab /\ call'[r].kind = kind
         /\ call'[r].sent = cookie /\ call'[r].result = "wire"
         /\ \A q \in Requests \ {r} : call'[q] = call[q]
         /\ UNCHANGED <<vars, cookie, page, mishaps>>
<1>1. Send(r, tab, kind) /\ UNCHANGED page
  BY DEF Sends, Restore, Unauthorized, Submit
<1>2. kind \in {"restore", "refresh", "again", "login", "logout"}
  <2>1. page[tab] \in Page
    BY DEF Types
  <2> QED
    BY <2>1 DEF Sends, Restore, Owing, Page
<1> DEFINE c == [tab |-> tab, kind |-> kind, sent |-> cookie, result |-> "wire"]
<1>3. c \in Call
  BY <1>2 DEF Types, Call, Inv, TypeOK
<1>4. c # None
  BY <1>3, CallFields
<1>5. call' = [call EXCEPT ![r] = c]
  BY <1>1 DEF Send
<1>6. c.tab = tab /\ c.kind = kind /\ c.sent = cookie /\ c.result = "wire"
  OBVIOUS
<1> HIDE DEF c
<1>7. call \in [Requests -> Call \cup {None}]
  BY DEF Types
<1>8. call'[r] = c /\ call' \in [Requests -> Call \cup {None}]
      /\ \A q \in Requests \ {r} : call'[q] = call[q]
  BY <1>3, <1>5, <1>7
<1> QED
  BY <1>1, <1>2, <1>4, <1>6, <1>8 DEF Send, Calls

LEMMA AnswerEffect ==
  ASSUME Types, NEW r \in Calls,
         NEW x \in {"wire", "running", "refused", "done", "failed"} \cup Tokens,
         Answer(r, x)
  PROVE  /\ call' \in [Requests -> Call \cup {None}]
         /\ call[r].tab = None => r \notin Calls'
         /\ call[r].tab # None => /\ Fixed(r) /\ call'[r].tab = call[r].tab
                                  /\ call'[r].result = x
         /\ \A q \in Requests \ {r} : call'[q] = call[q]
<1> DEFINE c == IF call[r].tab = None THEN None ELSE [call[r] EXCEPT !.result = x]
<1>1. r \in Requests /\ call[r] \in Call /\ call \in [Requests -> Call \cup {None}]
  BY CallTyped DEF Types
<1>2. [call[r] EXCEPT !.result = x] \in Call
  BY <1>1, ResultFields
<1>3. call' = [call EXCEPT ![r] = c] /\ c \in Call \cup {None}
  BY <1>2 DEF Answer
<1> HIDE DEF c
<1>4. call'[r] = c /\ call' \in [Requests -> Call \cup {None}]
      /\ \A q \in Requests \ {r} : call'[q] = call[q]
  BY <1>1, <1>3
<1>5. CASE call[r].tab = None
  BY <1>4, <1>5 DEF c, Calls
<1>6. CASE call[r].tab # None
  <2>1. call'[r] = [call[r] EXCEPT !.result = x] /\ call'[r] # None
    BY <1>2, <1>4, <1>6, CallFields DEF c
  <2>2. r \in Calls'
    BY <1>1, <2>1 DEF Calls
  <2> QED
    BY <1>1, <1>4, <1>6, <2>1, <2>2, ResultFields DEF Fixed
<1> QED
  BY <1>4, <1>5, <1>6

LEMMA ArriveEffect ==
  ASSUME Types, NEW r \in Calls, call' = [call EXCEPT ![r].result = "running"]
  PROVE  /\ call' \in [Requests -> Call \cup {None}]
         /\ Fixed(r) /\ call'[r].tab = call[r].tab /\ call'[r].result = "running"
         /\ \A q \in Requests \ {r} : call'[q] = call[q]
<1> DEFINE c == [call[r] EXCEPT !.result = "running"]
<1>1. r \in Requests /\ call[r] \in Call /\ call \in [Requests -> Call \cup {None}]
  BY CallTyped DEF Types
<1>2. c \in Call /\ c # None
  BY <1>1, ResultFields, CallFields
<1>3. call' = [call EXCEPT ![r] = c]
  OBVIOUS
<1>4. c.kind = call[r].kind /\ c.sent = call[r].sent /\ c.tab = call[r].tab /\ c.result = "running"
  BY <1>1, ResultFields
<1> HIDE DEF c
<1>5. call'[r] = c /\ call' \in [Requests -> Call \cup {None}]
      /\ \A q \in Requests \ {r} : call'[q] = call[q]
  BY <1>1, <1>2, <1>3
<1> QED
  BY <1>1, <1>2, <1>4, <1>5 DEF Fixed, Calls

\* A request whose page goes: over if it was answered, else on with nobody to hear.
Dropped(q) == /\ q \in Calls /\ call[q].tab # None
              /\ IF Answered(q) THEN q \notin Calls'
                 ELSE Fixed(q) /\ call'[q].tab = None /\ call'[q].result = call[q].result

LEMMA AbandonedFields ==
  ASSUME Types, NEW tab \in Tabs
  PROVE  /\ Abandoned(tab) \in [Requests -> Call \cup {None}]
         /\ \A q \in Requests \ Of(tab) : Abandoned(tab)[q] = call[q]
         /\ \A q \in Of(tab) : call'[q] = Abandoned(tab)[q] => Dropped(q)
<1> DEFINE c(q) == IF q \notin Of(tab) THEN call[q]
                   ELSE IF Answered(q) THEN None ELSE [call[q] EXCEPT !.tab = None]
<1>1. \A q \in Of(tab) : /\ q \in Calls /\ q \in Requests /\ call[q] \in Call
                         /\ call[q].tab # None
  BY CallTyped, WordsAreNoTokens DEF Of
<1>2. \A q \in Of(tab) : [call[q] EXCEPT !.tab = None] \in Call
  BY <1>1, CallFields
<1>3. \A q \in Requests : call[q] \in Call \cup {None}
  BY DEF Types
<1>4. \A q \in Requests : c(q) \in Call \cup {None}
  BY <1>2, <1>3
<1>5. Abandoned(tab) = [q \in Requests |-> c(q)]
  BY DEF Abandoned
<1> HIDE DEF c
<1>6. /\ Abandoned(tab) \in [Requests -> Call \cup {None}]
      /\ \A q \in Requests : Abandoned(tab)[q] = c(q)
  BY <1>4, <1>5
<1>7. ASSUME NEW q \in Of(tab), ~Answered(q), call'[q] = c(q)
      PROVE  /\ Fixed(q) /\ call'[q].tab = None /\ call'[q].result = call[q].result
  <2>1. call'[q] = [call[q] EXCEPT !.tab = None]
    BY <1>7 DEF c
  <2>2. q \in Calls /\ q \in Calls'
    BY <1>1, <1>2, <2>1, CallFields DEF Calls
  <2> QED
    BY <1>1, <2>1, <2>2, CallFields DEF Fixed
<1>8. ASSUME NEW q \in Of(tab), Answered(q), call'[q] = c(q)
      PROVE  q \notin Calls'
  BY <1>8 DEF c, Calls
<1>9. \A q \in Requests \ Of(tab) : c(q) = call[q]
  BY DEF c
<1> QED
  BY <1>1, <1>6, <1>7, <1>8, <1>9 DEF Dropped

LEMMA ReloadEffect ==
  ASSUME Types, NEW tab \in Tabs, NEW at, Reload(tab, at)
  PROVE  /\ call' \in [Requests -> Call \cup {None}]
         /\ \A q \in Of(tab) : Dropped(q)
         /\ \A q \in Requests \ Of(tab) : call'[q] = call[q]
  BY AbandonedFields DEF Reload

LEMMA BreakEffect ==
  ASSUME Types, NEW r \in Requests, Break(r)
  PROVE  /\ call' \in [Requests -> Call \cup {None}] /\ UNCHANGED vars
         /\ r \in Calls /\ call[r].tab \in Tabs
         /\ page' = [page EXCEPT ![call[r].tab] =
                       PageAfter(page[call[r].tab], call[r].kind, "failed")]
         /\ Fixed(r) /\ call'[r].tab = None /\ call'[r].result = call[r].result
         /\ \A q \in Requests \ {r} :
              \/ call'[q] = call[q]
              \/ /\ Dropped(q) /\ call[q].tab = call[r].tab
                 /\ history' = [history EXCEPT !.lost = @ \cup Unheard(call[r].tab)]
<1> DEFINE leaves == Redirects(page[call[r].tab], call[r].kind, "failed")
<1>1. /\ r \in Calls /\ call[r].tab # None /\ ~Answered(r) /\ UNCHANGED vars
      /\ page' = [page EXCEPT ![call[r].tab] =
                    PageAfter(page[call[r].tab], call[r].kind, "failed")]
      /\ call' = IF leaves THEN Abandoned(call[r].tab) ELSE [call EXCEPT ![r].tab = None]
      /\ history' = [history EXCEPT !.lost = IF leaves THEN @ \cup Unheard(call[r].tab) ELSE @]
  BY DEF Break
<1>2. call[r].tab \in Tabs /\ call[r] \in Call /\ r \in Of(call[r].tab)
  BY <1>1, CallTyped, CallFields DEF Of
<1> HIDE DEF leaves
<1>3. CASE leaves
  <2>1. call' = Abandoned(call[r].tab)
        /\ history' = [history EXCEPT !.lost = @ \cup Unheard(call[r].tab)]
    BY <1>1, <1>3
  <2>2. /\ call' \in [Requests -> Call \cup {None}]
        /\ \A q \in Of(call[r].tab) : Dropped(q)
        /\ \A q \in Requests \ Of(call[r].tab) : call'[q] = call[q]
    BY <1>2, <2>1, AbandonedFields
  <2>3. Fixed(r) /\ call'[r].tab = None /\ call'[r].result = call[r].result
    BY <1>1, <1>2, <2>2 DEF Dropped
  <2> QED
    BY <1>1, <1>2, <2>1, <2>2, <2>3 DEF Of
<1>4. CASE ~leaves
  <2> DEFINE c == [call[r] EXCEPT !.tab = None]
  <2>1. c \in Call /\ c # None
    BY <1>2, CallFields
  <2>2. call' = [call EXCEPT ![r] = c] /\ call \in [Requests -> Call \cup {None}]
    BY <1>1, <1>4 DEF Types
  <2>3. /\ c.kind = call[r].kind /\ c.sent = call[r].sent
        /\ c.tab = None /\ c.result = call[r].result
    BY <1>2, CallFields
  <2> HIDE DEF c
  <2>4. call'[r] = c /\ call' \in [Requests -> Call \cup {None}]
        /\ \A q \in Requests \ {r} : call'[q] = call[q]
    BY <2>1, <2>2
  <2> QED
    BY <1>1, <1>2, <2>1, <2>3, <2>4 DEF Fixed, Calls
<1> QED
  BY <1>3, <1>4

LEMMA DeliverEffect ==
  ASSUME Types, NEW r \in Requests, Deliver(r)
  PROVE  /\ call' \in [Requests -> Call \cup {None}] /\ UNCHANGED vars
         /\ r \in Calls /\ Answered(r) /\ r \notin Calls' /\ call[r].tab \in Tabs
         /\ page' = [page EXCEPT ![call[r].tab] =
                       PageAfter(page[call[r].tab], call[r].kind, call[r].result)]
         /\ \A q \in Requests \ {r} :
              \/ call'[q] = call[q]
              \/ /\ Dropped(q) /\ call[q].tab = call[r].tab
                 /\ call[r].kind = "refresh" /\ call[r].result \notin Tokens
                 /\ history' = [history EXCEPT !.lost = @ \cup Unheard(call[r].tab)]
<1> DEFINE leaves == Redirects(page[call[r].tab], call[r].kind, call[r].result)
<1>1. /\ r \in Calls /\ call[r].tab # None /\ Answered(r) /\ UNCHANGED vars
      /\ page' = [page EXCEPT ![call[r].tab] =
                    PageAfter(page[call[r].tab], call[r].kind, call[r].result)]
      /\ call' = [(IF leaves THEN Abandoned(call[r].tab) ELSE call) EXCEPT ![r] = None]
  BY DEF Deliver
<1>2. /\ call[r].tab \in Tabs /\ call[r] \in Call
      /\ call \in [Requests -> Call \cup {None}]
  BY <1>1, CallTyped, CallFields DEF Types
<1>3. leaves => call[r].kind = "refresh" /\ call[r].result \notin Tokens
  BY DEF Redirects
<1>4. leaves => history' = [history EXCEPT !.lost = @ \cup Unheard(call[r].tab)]
  <2> SUFFICES ASSUME leaves
               PROVE  history' = [history EXCEPT !.lost = @ \cup Unheard(call[r].tab)]
    OBVIOUS
  <2>1. history' = [history EXCEPT
                      !.left = IF call[r].kind = "logout" /\ call[r].result = "done"
                               THEN @ \cup FamilyOf(call[r].sent) ELSE @,
                      !.lost = IF leaves THEN @ \cup Unheard(call[r].tab) ELSE @]
    BY DEF Deliver
  <2>2. history \in History /\ call[r].kind # "logout"
    BY <1>3 DEF Types
  <2> HIDE DEF leaves
  <2>3. history' = [history EXCEPT !.left = history.left,
                                   !.lost = @ \cup Unheard(call[r].tab)]
    BY <2>1, <2>2
  <2> QED
    BY <2>2, <2>3 DEF History
<1> HIDE DEF leaves
<1>5. CASE leaves
  <2> DEFINE g == Abandoned(call[r].tab)
  <2>1. /\ g \in [Requests -> Call \cup {None}]
        /\ \A q \in Of(call[r].tab) : call'[q] = g[q] => Dropped(q)
        /\ \A q \in Requests \ Of(call[r].tab) : g[q] = call[q]
    BY <1>2, AbandonedFields
  <2>2. call' = [g EXCEPT ![r] = None]
    BY <1>1, <1>5
  <2> HIDE DEF g
  <2>3. /\ call' \in [Requests -> Call \cup {None}] /\ call'[r] = None
        /\ \A q \in Requests \ {r} : call'[q] = g[q]
    BY <2>1, <2>2
  <2>4. \A q \in Requests \ {r} : \/ call'[q] = call[q]
                                  \/ Dropped(q) /\ call[q].tab = call[r].tab
    BY <2>1, <2>3 DEF Of
  <2>5. r \notin Calls'
    BY <2>3 DEF Calls
  <2> QED
    BY <1>1, <1>2, <1>3, <1>4, <1>5, <2>3, <2>4, <2>5
<1>6. CASE ~leaves
  <2>1. call' = [call EXCEPT ![r] = None]
    BY <1>1, <1>6
  <2>2. /\ call' \in [Requests -> Call \cup {None}] /\ call'[r] = None
        /\ \A q \in Requests \ {r} : call'[q] = call[q]
    BY <1>2, <2>1
  <2> QED
    BY <1>1, <1>2, <2>2 DEF Calls
<1> QED
  BY <1>5, <1>6

\* A request that goes on goes on as it was, or with the answer of a handler.
SameResult(q) == call'[q].result = call[q].result
Done(q) == /\ call'[q].result = "done" /\ call[q].kind = "logout"
           /\ RevokeFamily(q) \/ call[q].sent = None
Granted(q, t) == call'[q].result = t /\ CreateRefresh(q, t)

Goes(q) == /\ Fixed(q) /\ call'[q].tab \in {call[q].tab, None}
           /\ \/ SameResult(q)
              \/ call'[q].result \in {"running", "refused", "failed"}
              \/ Done(q)
              \/ \E t \in Tokens : Granted(q, t)
New(q)  == \E tab \in Tabs, kind \in {"restore", "refresh", "again", "login", "logout"} :
             Sends(q, tab, kind)

LEMMA CallSteps ==
  ASSUME Types, [SessionNext]_allVars
  PROVE  /\ call' \in [Requests -> Call \cup {None}]
         /\ \A q \in Calls' : Goes(q) \/ New(q)
<1> DEFINE Good == /\ call' \in [Requests -> Call \cup {None}]
                   /\ \A q \in Calls' : Goes(q) \/ New(q)
<1>1. ASSUME NEW q \in Calls', call'[q] = call[q]
      PROVE  Goes(q)
  <2>1. q \in Calls
    BY <1>1 DEF Calls
  <2> QED
    BY <1>1, <2>1 DEF Fixed, SameResult, Goes
<1>2. ASSUME NEW r \in Requests, call' \in [Requests -> Call \cup {None}],
             \A q \in Requests \ {r} : call'[q] = call[q],
             r \in Calls' => Goes(r) \/ New(r)
      PROVE  Good
  <2>1. \A q \in Calls' : q \in Requests
    BY DEF Calls
  <2> QED
    BY <1>1, <1>2, <2>1
<1>3. ASSUME NEW r \in Requests, NEW tab \in Tabs, NEW kind, Sends(r, tab, kind)
      PROVE  Good
  <2> HIDE DEF Good
  <2>1. /\ call' \in [Requests -> Call \cup {None}]
        /\ \A q \in Requests \ {r} : call'[q] = call[q]
        /\ New(r)
    BY <1>3, SendEffect DEF New
  <2> QED
    BY <1>2, <2>1
<1>4. ASSUME NEW r \in Calls, NEW x \in {"refused", "failed"}, Answer(r, x)
      PROVE  Good
  <2>1. r \in Requests /\ (r \in Calls' => Goes(r))
    BY <1>4, AnswerEffect, CallTyped DEF Goes
  <2> QED
    BY <1>2, <1>4, <2>1, AnswerEffect
<1>5. ASSUME NEW r \in Calls, Answer(r, "done"), call[r].kind = "logout",
             RevokeFamily(r) \/ call[r].sent = None
      PROVE  Good
  <2>1. r \in Requests /\ (r \in Calls' => Goes(r))
    BY <1>5, AnswerEffect, CallTyped DEF Goes, Done
  <2> QED
    BY <1>2, <1>5, <2>1, AnswerEffect
<1>6. ASSUME NEW r \in Calls, NEW t \in Tokens, CreateRefresh(r, t), Answer(r, t)
      PROVE  Good
  <2>1. r \in Requests /\ (r \in Calls' => Goes(r))
    BY <1>6, AnswerEffect, CallTyped DEF Goes, Granted
  <2> QED
    BY <1>2, <1>6, <2>1, AnswerEffect
<1>7. ASSUME UNCHANGED call
      PROVE  Good
  <2>1. call' \in [Requests -> Call \cup {None}] /\ Calls' = Calls
    BY <1>7 DEF Types, Calls
  <2> QED
    BY <1>1, <1>7, <2>1
<1>8. ASSUME NEW r \in Requests, Arrive(r)
      PROVE  Good
  <2>1. CASE call' = [call EXCEPT ![r].result = "running"]
    <3>1. r \in Calls
      BY <1>8 DEF Arrive
    <3>2. Goes(r)
      BY <2>1, <3>1, ArriveEffect DEF Goes
    <3> QED
      BY <1>2, <2>1, <3>1, <3>2, ArriveEffect
  <2>2. CASE /\ call[r].kind # "login" /\ call[r].sent = None
             /\ Answer(r, IF call[r].kind = "logout" THEN "done" ELSE "refused")
    <3>1. r \in Calls
      BY <1>8 DEF Arrive
    <3> QED
      BY <1>4, <1>5, <2>2, <3>1
  <2> QED
    BY <1>8, <2>1, <2>2 DEF Arrive
<1>9. ASSUME NEW r \in Requests, Handle(r)
      PROVE  Good
  <2>1. r \in Calls
    BY <1>9 DEF Handle
  <2>2. CASE RevokeFamily(r) /\ Answer(r, IF call[r].kind = "logout" THEN "done" ELSE "refused")
    BY <1>4, <1>5, <2>1, <2>2
  <2>3. CASE \E t \in Tokens : CreateRefresh(r, t) /\ Answer(r, t)
    BY <1>6, <2>1, <2>3
  <2>4. CASE UNCHANGED call
    <3> HIDE DEF Good
    <3> QED
      BY <1>7, <2>4
  <2> QED
    BY <1>9, <2>2, <2>3, <2>4 DEF Handle
<1>10. ASSUME NEW r \in Requests, HandlerFails(r)
       PROVE  Good
  BY <1>4, <1>10 DEF HandlerFails
<1>d. ASSUME NEW q \in Calls', Dropped(q)
      PROVE  Goes(q)
  BY <1>d DEF Dropped, Goes, SameResult
<1>e. ASSUME NEW r \in Requests, call' \in [Requests -> Call \cup {None}],
             r \in Calls' => Goes(r),
             \A q \in Requests \ {r} : call'[q] = call[q] \/ Dropped(q)
      PROVE  Good
  <2>1. \A q \in Calls' : q \in Requests
    BY DEF Calls
  <2> QED
    BY <1>1, <1>d, <1>e, <2>1
<1>11. ASSUME NEW r \in Requests, Deliver(r)
       PROVE  Good
  BY <1>e, <1>11, DeliverEffect
<1>12. ASSUME NEW r \in Requests, Break(r)
       PROVE  Good
  <2>1. Goes(r)
    BY <1>12, BreakEffect DEF Goes, SameResult
  <2> QED
    BY <1>e, <1>12, <2>1, BreakEffect
<1>13. ASSUME NEW tab \in Tabs, NEW at, Reload(tab, at)
       PROVE  Good
  <2>1. ASSUME NEW q \in Calls'
        PROVE  Goes(q)
    BY <1>1, <1>d, <1>13, ReloadEffect DEF Calls
  <2> QED
    BY <1>13, <2>1, ReloadEffect
<1> HIDE DEF Good
<1>14. UNCHANGED allVars => Good
  BY <1>7 DEF allVars, sessionVars
<1>15. page \in [Tabs -> Page]
  BY DEF Types
<1>16. Good
  BY <1>3, <1>8, <1>9, <1>10, <1>11, <1>12, <1>13, <1>14, <1>15, StepCases
<1> QED
  BY <1>16 DEF Good

-----------------------------------------------------------------------------
(* What one step makes of the history, the cookie and the pages.           *)

Grows == /\ history.lost \subseteq history'.lost
         /\ history.overlapped \subseteq history'.overlapped
         /\ history.crossed \subseteq history'.crossed
         /\ history.leaving \subseteq history'.leaving
         /\ history.left \subseteq history'.left

LEMMA FamilyOfTyped ==
  ASSUME Inv, NEW t
  PROVE  FamilyOf(t) \subseteq Families
<1>1. \A s \in Stored : row[s] \in Row
  BY DEF Inv, TypeOK
<1> QED
  BY <1>1 DEF FamilyOf, Row

LEMMA HistoryFields ==
  ASSUME history \in History, NEW S \in SUBSET Families
  PROVE  /\ [history EXCEPT !.lost = @ \cup S] \in History
         /\ [history EXCEPT !.lost = @ \cup S].lost = history.lost \cup S
         /\ [history EXCEPT !.lost = @ \cup S].overlapped = history.overlapped
         /\ [history EXCEPT !.lost = @ \cup S].crossed = history.crossed
         /\ [history EXCEPT !.lost = @ \cup S].leaving = history.leaving
         /\ [history EXCEPT !.lost = @ \cup S].left = history.left
         /\ [history EXCEPT !.left = @ \cup S] \in History
         /\ [history EXCEPT !.left = @ \cup S].lost = history.lost
         /\ [history EXCEPT !.left = @ \cup S].overlapped = history.overlapped
         /\ [history EXCEPT !.left = @ \cup S].crossed = history.crossed
         /\ [history EXCEPT !.left = @ \cup S].leaving = history.leaving
         /\ [history EXCEPT !.left = @ \cup S].left = history.left \cup S
  BY DEF History

LEMMA HistoryAtSend ==
  ASSUME history \in History, NEW A \in SUBSET Families, NEW B \in SUBSET Families,
         NEW C \in SUBSET Families,
         history' = [history EXCEPT !.overlapped = @ \cup A, !.crossed = @ \cup B,
                                    !.leaving = @ \cup C]
  PROVE  /\ history' \in History
         /\ history'.lost = history.lost /\ history'.left = history.left
         /\ history'.overlapped = history.overlapped \cup A
         /\ history'.crossed = history.crossed \cup B
         /\ history'.leaving = history.leaving \cup C
  BY DEF History

LEMMA HistoryAtDelivery ==
  ASSUME Types, NEW r, Deliver(r)
  PROVE  \E A \in SUBSET Families, B \in SUBSET Families :
           /\ history' = [history EXCEPT !.left = @ \cup A, !.lost = @ \cup B]
           /\ A # {} => /\ call[r].kind = "logout" /\ call[r].result = "done"
                        /\ A = FamilyOf(call[r].sent)
           /\ Redirects(page[call[r].tab], call[r].kind, call[r].result) =>
                B = Unheard(call[r].tab)
<1> DEFINE out    == call[r].kind = "logout" /\ call[r].result = "done"
           leaves == Redirects(page[call[r].tab], call[r].kind, call[r].result)
           A      == IF out THEN FamilyOf(call[r].sent) ELSE {}
           B      == IF leaves THEN Unheard(call[r].tab) ELSE {}
<1>1. history' = [history EXCEPT
                    !.left = IF out THEN @ \cup FamilyOf(call[r].sent) ELSE @,
                    !.lost = IF leaves THEN @ \cup Unheard(call[r].tab) ELSE @]
  BY DEF Deliver
<1>2. A \in SUBSET Families /\ B \in SUBSET Families
  BY FamilyOfTyped DEF Unheard, Types
<1>3. history' = [history EXCEPT !.left = @ \cup A, !.lost = @ \cup B]
  <2> HIDE DEF out, leaves
  <2> QED
    BY <1>1
<1> QED
  BY <1>2, <1>3

LEMMA BreakHistory ==
  ASSUME Types, NEW r, Break(r)
  PROVE  \E S \in SUBSET Families : history' = [history EXCEPT !.lost = @ \cup S]
<1> DEFINE leaves == Redirects(page[call[r].tab], call[r].kind, "failed")
           S      == IF leaves THEN Unheard(call[r].tab) ELSE {}
<1>1. history' = [history EXCEPT !.lost = IF leaves THEN @ \cup Unheard(call[r].tab) ELSE @]
  BY DEF Break
<1>2. S \in SUBSET Families
  BY FamilyOfTyped DEF Unheard, Types
<1>3. history' = [history EXCEPT !.lost = @ \cup S]
  <2> HIDE DEF leaves
  <2> QED
    BY <1>1
<1> QED
  BY <1>2, <1>3

LEMMA HistoryAtEnd ==
  ASSUME history \in History, NEW A \in SUBSET Families, NEW B \in SUBSET Families,
         history' = [history EXCEPT !.left = @ \cup A, !.lost = @ \cup B]
  PROVE  /\ history' \in History
         /\ history'.lost = history.lost \cup B /\ history'.left = history.left \cup A
         /\ history'.overlapped = history.overlapped
         /\ history'.crossed = history.crossed
         /\ history'.leaving = history.leaving
  BY DEF History

\* The requests a request is sent beside, with the same cookie or in its family.
UnderWay(fs) == {q \in Calls : call[q].kind # "login" /\ FamilyOf(call[q].sent) = fs}

LEMMA SendNotes ==
  ASSUME Types, NEW r \in Requests, NEW tab \in Tabs, NEW kind, Sends(r, tab, kind)
  PROVE  /\ history' \in History
         /\ history'.lost = history.lost /\ history'.left = history.left
         /\ Grows
         /\ kind # "login" =>
              \A q \in UnderWay(FamilyOf(cookie)) :
                /\ call[q].sent = cookie /\ call[q].tab # tab =>
                     FamilyOf(cookie) \subseteq history'.overlapped
                /\ (call[q].kind = "logout") # (kind = "logout") =>
                     FamilyOf(cookie) \subseteq history'.crossed
         /\ kind = "logout" => FamilyOf(cookie) \subseteq history'.leaving
<1> DEFINE fs        == FamilyOf(cookie)
           rivals    == {q \in UnderWay(fs) : call[q].sent = cookie /\ call[q].tab # tab}
           crossings == {q \in UnderWay(fs) : (call[q].kind = "logout") # (kind = "logout")}
           A == IF rivals # {} THEN fs ELSE {}
           B == IF crossings # {} THEN fs ELSE {}
           C == IF kind = "logout" THEN fs ELSE {}
<1>0. history \in History /\ fs \subseteq Families
  BY FamilyOfTyped DEF Types
<1>1. history' = IF kind = "login" THEN history
                 ELSE [history EXCEPT !.overlapped = @ \cup A, !.crossed = @ \cup B,
                                      !.leaving = @ \cup C]
  <2>1. Send(r, tab, kind)
    BY DEF Sends, Restore, Unauthorized, Submit
  <2> QED
    BY <2>1, Zenon DEF Send, UnderWay
<1>2. A \subseteq Families /\ B \subseteq Families /\ C \subseteq Families
  BY <1>0
<1>3. CASE kind = "login"
  <2>1. history' = history /\ kind # "logout"
    BY <1>1, <1>3
  <2> QED
    BY <1>0, <1>3, <2>1 DEF Grows
<1>4. CASE kind # "login"
  <2>1. history' = [history EXCEPT !.overlapped = @ \cup A, !.crossed = @ \cup B,
                                   !.leaving = @ \cup C]
    BY <1>1, <1>4
  <2> HIDE DEF A, B, C
  <2>2. /\ history' \in History
        /\ history'.lost = history.lost /\ history'.left = history.left
        /\ history'.overlapped = history.overlapped \cup A
        /\ history'.crossed = history.crossed \cup B
        /\ history'.leaving = history.leaving \cup C
    BY <1>0, <1>2, <2>1, HistoryAtSend
  <2>3. ASSUME NEW q \in UnderWay(fs), call[q].sent = cookie, call[q].tab # tab
        PROVE  fs \subseteq history'.overlapped
    BY <2>2, <2>3 DEF A
  <2>4. ASSUME NEW q \in UnderWay(fs), (call[q].kind = "logout") # (kind = "logout")
        PROVE  fs \subseteq history'.crossed
    BY <2>2, <2>4 DEF B
  <2>5. kind = "logout" => fs \subseteq history'.leaving
    BY <2>2 DEF C
  <2>6. Grows
    BY <2>2 DEF Grows
  <2> QED
    BY <2>2, <2>3, <2>4, <2>5, <2>6
<1> QED
  BY <1>3, <1>4

\* What is lost, and what is left, and when.
LEMMA HistorySteps ==
  ASSUME Types, [SessionNext]_allVars
  PROVE  history' \in History /\ Grows
<1>0. history \in History /\ \A t : FamilyOf(t) \subseteq Families
  BY FamilyOfTyped DEF Types
<1>u. \A tab : Unheard(tab) \subseteq Families
  BY <1>0 DEF Unheard
<1>1. history' = history => history' \in History /\ Grows
  BY <1>0 DEF Grows
<1>2. ASSUME NEW S \in SUBSET Families,
             \/ history' = [history EXCEPT !.lost = @ \cup S]
             \/ history' = [history EXCEPT !.left = @ \cup S]
      PROVE  history' \in History /\ Grows
  BY ZenonT(30), <1>0, <1>2, HistoryFields DEF Grows
<1>3. ASSUME NEW r \in Requests, Handle(r) \/ HandlerFails(r)
      PROVE  history' \in History /\ Grows
  <2>1. CASE history' = [history EXCEPT !.lost = @ \cup {grant[r].family}] /\ pc[r] # "idle"
    <3>1. {grant[r].family} \subseteq Families
      BY <2>1 DEF Types, Inv, Carried, Grant
    <3> QED
      BY <1>2, <2>1, <3>1
  <2>2. pc[r] # "idle"
    BY <1>3 DEF Handle, HandlerFails, Consume, RevokeFamily, CreateRefresh, Fail
  <2> QED
    BY <1>1, <1>3, <2>1, <2>2 DEF Handle, HandlerFails, LoseIf
<1>4. ASSUME NEW r \in Requests, Deliver(r)
      PROVE  history' \in History /\ Grows
  BY <1>0, <1>4, HistoryAtDelivery, HistoryAtEnd DEF Grows
<1>5. ASSUME NEW tab \in Tabs, NEW at, Reload(tab, at)
      PROVE  history' \in History /\ Grows
  BY <1>2, <1>5, <1>u DEF Reload
<1>6. ASSUME NEW r \in Requests, NEW tab \in Tabs, NEW kind, Sends(r, tab, kind)
      PROVE  history' \in History /\ Grows
  BY <1>6, SendNotes
<1>7. ASSUME NEW r \in Requests, Arrive(r) \/ Break(r)
      PROVE  history' \in History /\ Grows
  <2>1. CASE Arrive(r)
    BY <1>1, <2>1 DEF Arrive
  <2>2. CASE Break(r)
    <3>1. \E S \in SUBSET Families : history' = [history EXCEPT !.lost = @ \cup S]
      BY <2>2, BreakHistory
    <3> QED
      BY <1>2, <3>1
  <2> QED
    BY <1>7, <2>1, <2>2
<1>8. UNCHANGED allVars => history' \in History /\ Grows
  BY <1>1 DEF allVars, sessionVars
<1>9. page \in [Tabs -> Page]
  BY DEF Types
<1> QED
  BY <1>3, <1>4, <1>5, <1>6, <1>7, <1>8, <1>9, StepCases

LEMMA CookieSteps ==
  ASSUME [SessionNext]_allVars
  PROVE  \/ cookie' = cookie
         \/ \E r \in Requests : Deliver(r) /\ call[r].result \in Tokens
                                /\ cookie' = call[r].result
         \/ \E r \in Requests : Deliver(r) /\ call[r].result = "done" /\ cookie' = None
<1>1. ASSUME NEW r \in Requests, Deliver(r)
      PROVE  \/ cookie' = cookie
             \/ call[r].result \in Tokens /\ cookie' = call[r].result
             \/ call[r].result = "done" /\ cookie' = None
  <2>1. cookie' = CookieAfter(call[r].result)
    BY <1>1 DEF Deliver
  <2> DEFINE x == call[r].result
  <2> HIDE DEF x
  <2>2. \/ CookieAfter(x) = cookie
        \/ x \in Tokens /\ CookieAfter(x) = x
        \/ x = "done" /\ CookieAfter(x) = None
    BY SessionAssumption DEF CookieAfter
  <2> QED
    BY <2>1, <2>2 DEF x
<1>2. ASSUME NEW r, NEW tab, NEW kind, Send(r, tab, kind)
      PROVE  cookie' = cookie
  BY <1>2 DEF Send
<1> QED
  BY <1>1, <1>2
  DEF SessionNext, Serve, Restore, Unauthorized, Submit, Reload, Arrive, Handle,
      HandlerFails, Break, allVars, sessionVars

LEMMA PagesTyped ==
  ASSUME NEW p \in Page, NEW kind \in {"restore", "refresh", "again", "login", "logout"}, NEW x,
         x \in Tokens => row[x].user \in Users
  PROVE  PageAfter(p, kind, x) \in Page
<1>1. ASSUME NEW n \in {"restore", "refresh", "again", "ready"}
      PROVE  [p EXCEPT !.next = n] \in Page
  BY DEF Page
<1>2. \A at \in {"login", "app"} : Blank(at) \in Page
  BY DEF Page, Blank
<1>3. CASE kind = "logout"
  BY <1>3 DEF PageAfter, Page
<1>4. CASE kind # "logout" /\ x \in Tokens
  <2>1. PageAfter(p, kind, x) = [at   |-> IF kind = "login" THEN "app" ELSE p.at,
                                 next |-> IF kind = "refresh" /\ p.next = "refresh"
                                          THEN "again" ELSE "ready",
                                 user |-> row[x].user]
    BY <1>4 DEF PageAfter
  <2> QED
    BY <1>4, <2>1 DEF Page
<1>5. CASE kind = "login" /\ x \notin Tokens
  BY <1>5 DEF PageAfter
<1>6. CASE kind = "restore" /\ x \notin Tokens
  <2>1. PageAfter(p, kind, x) = [p EXCEPT !.next = IF x = "refused" THEN "refresh" ELSE "ready"]
    BY <1>6 DEF PageAfter
  <2> QED
    BY <1>1, <2>1
<1>7. CASE kind = "refresh" /\ x \notin Tokens
  <2>1. PageAfter(p, kind, x) = IF Redirects(p, kind, x) THEN Blank("login")
                                                      ELSE [p EXCEPT !.next = "ready"]
    BY <1>7 DEF PageAfter
  <2> QED
    BY <1>1, <1>2, <2>1
<1>8. CASE kind = "again" /\ x \notin Tokens
  <2>1. PageAfter(p, kind, x) = [p EXCEPT !.next = "ready"]
    BY <1>8 DEF PageAfter
  <2> QED
    BY <1>1, <2>1
<1> QED
  BY <1>3, <1>4, <1>5, <1>6, <1>7, <1>8

LEMMA TypesInit == SessionInit => Types /\ CallsOK
<1> SUFFICES ASSUME SessionInit
             PROVE  Types /\ CallsOK
  OBVIOUS
<1>1. Inv
  BY InvInit DEF SessionInit
<1>2. Calls = {}
  BY DEF SessionInit, Calls
<1>3. page \in [Tabs -> Page]
  BY DEF SessionInit, Page
<1>4. call \in [Requests -> Call \cup {None}]
  BY DEF SessionInit
<1>5. history \in History
  BY DEF SessionInit, History
<1>6. mishaps \in 0..MaxMishaps
  BY SessionAssumption DEF SessionInit
<1> QED
  BY <1>1, <1>2, <1>3, <1>4, <1>5, <1>6 DEF SessionInit, Types, CallsOK

LEMMA TypesNext ==
  ASSUME Types, CallsOK, [SessionNext]_allVars
  PROVE  Types'
<1>1. Inv' /\ [Next]_vars
  BY SessionSteps, InvNext DEF Types
<1>2. \A t \in Stored : t \in Stored' /\ row[t].user \in Users
  BY <1>1, RowsAreKept DEF Types, Inv, TypeOK, Row
<1>3. cookie' \in Stored' \cup {None}
  <2>1. ASSUME NEW r \in Requests, Deliver(r), call[r].result \in Tokens
        PROVE  call[r].result \in Stored
    BY <2>1 DEF Deliver, CallsOK, CallOK
  <2> QED
    BY <1>2, <2>1, CookieSteps DEF Types
<1>4. page' \in [Tabs -> Page]
  <2>0. page \in [Tabs -> Page]
    BY DEF Types
  <2>1. ASSUME NEW tab \in Tabs, NEW p \in Page, page' = [page EXCEPT ![tab] = p]
        PROVE  page' \in [Tabs -> Page]
    BY <2>0, <2>1
  <2>2. ASSUME NEW r \in Calls, call[r].tab # None, NEW x, x \in Tokens => x \in Stored
        PROVE  call[r].tab \in Tabs /\ PageAfter(page[call[r].tab], call[r].kind, x) \in Page
    BY <1>2, <2>0, <2>2, CallTyped, CallFields, PagesTyped
  <2>3. ASSUME NEW r \in Requests, Deliver(r)
        PROVE  page' \in [Tabs -> Page]
    <3>1. /\ r \in Calls /\ call[r].tab # None
          /\ page' = [page EXCEPT ![call[r].tab] =
                        PageAfter(page[call[r].tab], call[r].kind, call[r].result)]
      BY <2>3 DEF Deliver
    <3>2. call[r].result \in Tokens => call[r].result \in Stored
      BY <3>1 DEF CallsOK, CallOK
    <3> QED
      BY <2>1, <2>2, <3>1, <3>2
  <2>4. ASSUME NEW r \in Requests, Break(r)
        PROVE  page' \in [Tabs -> Page]
    <3>1. /\ r \in Calls /\ call[r].tab # None
          /\ page' = [page EXCEPT ![call[r].tab] =
                        PageAfter(page[call[r].tab], call[r].kind, "failed")]
      BY <2>4 DEF Break
    <3> QED
      BY <2>1, <2>2, <3>1, WordsAreNoTokens
  <2>5. ASSUME NEW tab \in Tabs, NEW at \in {"login", "app"}, Reload(tab, at)
        PROVE  page' \in [Tabs -> Page]
    <3>1. Blank(at) \in Page
      BY DEF Blank, Page
    <3> QED
      BY <2>1, <2>5, <3>1 DEF Reload
  <2>6. ASSUME UNCHANGED page
        PROVE  page' \in [Tabs -> Page]
    BY <2>0, <2>6
  <2>7. ASSUME NEW r \in Requests, NEW tab \in Tabs, NEW kind, Sends(r, tab, kind)
        PROVE  UNCHANGED page
    BY <2>7 DEF Sends, Restore, Unauthorized, Submit
  <2>8. ASSUME NEW r \in Requests, Arrive(r) \/ Handle(r) \/ HandlerFails(r)
        PROVE  UNCHANGED page
    BY <2>8 DEF Arrive, Handle, HandlerFails
  <2>9. UNCHANGED allVars => UNCHANGED page
    BY DEF allVars, sessionVars
  <2> QED
    BY <2>0, <2>3, <2>4, <2>5, <2>6, <2>7, <2>8, <2>9, StepCases
<1>5. mishaps' \in 0..MaxMishaps
  <2>1. mishaps' = mishaps \/ (mishaps < MaxMishaps /\ mishaps' = mishaps + 1)
    <3>1. ASSUME NEW r, NEW tab, NEW kind, Send(r, tab, kind)
          PROVE  mishaps' = mishaps
      BY <3>1 DEF Send
    <3> QED
      BY <3>1
      DEF SessionNext, Serve, Restore, Unauthorized, Submit, Reload, Arrive, Handle,
          HandlerFails, Break, Deliver, allVars, sessionVars
  <2> QED
    BY <2>1, SessionAssumption DEF Types
<1> QED
  BY <1>1, <1>3, <1>4, <1>5, CallSteps, HistorySteps DEF Types

-----------------------------------------------------------------------------
(* The handlers of a session.                                              *)

Enters(q) == Fixed(q) /\ call[q].result = "wire" /\ call'[q].result = "running"
Stays(q)  == /\ pc'[q] = pc[q] /\ grant'[q] = grant[q] /\ presented'[q] = presented[q]
             /\ Fixed(q) /\ SameResult(q)

LEMMA OthersStay ==
  ASSUME Types, Running, NEW r \in Requests, NEW q \in Requests \ {r}, pc'[q] # "idle",
         call'[q] = call[q],
         \/ End(r)
         \/ \E l, t, g : Enter(r, l, t, g)
         \/ UNCHANGED <<pc, presented, grant>>
  PROVE  Stays(q)
<1>1. pc'[q] = pc[q] /\ grant'[q] = grant[q] /\ presented'[q] = presented[q]
  <2>1. /\ pc \in [Requests -> {"idle", "revoke", "consume", "create"}]
        /\ presented \in [Requests -> Tokens \cup {None}]
        /\ grant \in [Requests -> Grant \cup {None}]
    BY DEF Types, Inv, TypeOK
  <2> QED
    BY <2>1 DEF End, Enter
<1>2. q \in Calls
  BY <1>1 DEF Running, RunOK
<1>3. q \in Calls'
  BY <1>2 DEF Calls
<1> QED
  BY <1>1, <1>2, <1>3 DEF Stays, Fixed, SameResult

LEMMA PcSteps ==
  ASSUME Types, Running, [SessionNext]_allVars
  PROVE  \A q \in Requests : pc'[q] # "idle" =>
           \/ Stays(q)
           \/ Consume(q) /\ UNCHANGED call
           \/ /\ Enters(q) /\ call[q].kind = "login"
              /\ \E u \in Users, f \in Families : Login(q, u, f)
           \/ Enters(q) /\ call[q].kind \in Refreshing /\ RotateLookup(q, call[q].sent)
           \/ Enters(q) /\ call[q].kind = "logout" /\ LogoutLookup(q, call[q].sent)
<1> DEFINE Goal(q) ==
             \/ Stays(q)
             \/ Consume(q) /\ UNCHANGED call
             \/ /\ Enters(q) /\ call[q].kind = "login"
                /\ \E u \in Users, f \in Families : Login(q, u, f)
             \/ Enters(q) /\ call[q].kind \in Refreshing /\ RotateLookup(q, call[q].sent)
             \/ Enters(q) /\ call[q].kind = "logout" /\ LogoutLookup(q, call[q].sent)
<1> SUFFICES ASSUME NEW q \in Requests, pc'[q] # "idle"
             PROVE  Goal(q)
  OBVIOUS
<1>0. /\ pc \in [Requests -> {"idle", "revoke", "consume", "create"}]
      /\ page \in [Tabs -> Page]
      /\ \A r \in Calls : r \in Requests /\ call[r] \in Call
  BY CallTyped DEF Types, Inv, TypeOK
<1>1. ASSUME UNCHANGED vars, Fixed(q), SameResult(q)
      PROVE  Goal(q)
  BY <1>1 DEF Stays, vars
<1>2. UNCHANGED vars => q \in Calls /\ call[q].result = "running"
  BY DEF vars, Running, RunOK
<1>3. ASSUME UNCHANGED vars, call'[q] = call[q]
      PROVE  Goal(q)
  <2>1. q \in Calls /\ q \in Calls'
    BY <1>2, <1>3 DEF Calls
  <2> QED
    BY <1>1, <1>3, <2>1 DEF Fixed, SameResult
<1>d. ASSUME UNCHANGED vars, Dropped(q)
      PROVE  Goal(q)
  <2>1. ~Answered(q)
    BY <1>2, <1>d DEF Answered
  <2>2. Fixed(q) /\ SameResult(q)
    BY <1>d, <2>1 DEF Dropped, SameResult
  <2> HIDE DEF Goal
  <2> QED
    BY <1>1, <1>d, <2>2
<1>4. ASSUME NEW r \in Requests, NEW tab \in Tabs, NEW kind, Sends(r, tab, kind)
      PROVE  Goal(q)
  <2>1. UNCHANGED vars /\ pc[r] = "idle" /\ (q # r => call'[q] = call[q])
    BY <1>4, SendEffect
  <2>2. q # r
    BY <2>1 DEF vars
  <2> HIDE DEF Goal
  <2> QED
    BY <1>3, <2>1, <2>2
<1>5. ASSUME NEW tab \in Tabs, NEW at, Reload(tab, at)
      PROVE  Goal(q)
  <2>1. UNCHANGED vars /\ (call'[q] = call[q] \/ Dropped(q))
    BY <1>5, ReloadEffect DEF Reload
  <2> HIDE DEF Goal
  <2> QED
    BY <1>3, <1>d, <2>1
<1>6. ASSUME NEW r \in Requests, Arrive(r)
      PROVE  Goal(q)
  <2>0. r \in Calls /\ call[r].result = "wire"
    BY <1>6 DEF Arrive
  <2>1. CASE UNCHANGED vars /\ Answer(r, IF call[r].kind = "logout" THEN "done" ELSE "refused")
    <3>1. q # r
      BY <1>2, <2>0, <2>1
    <3>2. call'[q] = call[q]
      BY <2>0, <2>1, <3>1, AnswerEffect
    <3> HIDE DEF Goal
    <3> QED
      BY <1>3, <2>1, <3>2
  <2>2. CASE /\ call' = [call EXCEPT ![r].result = "running"]
             /\ \/ /\ call[r].kind = "login"
                   /\ \E u \in Users, f \in Families : Login(r, u, f)
                \/ call[r].kind \in {"restore", "refresh", "again"} /\ RotateLookup(r, call[r].sent)
                \/ call[r].kind = "logout" /\ LogoutLookup(r, call[r].sent)
    <3>1. Enters(r) /\ (q # r => call'[q] = call[q])
      BY <2>0, <2>2, ArriveEffect DEF Enters
    <3>2. CASE q = r
      BY <2>2, <3>1, <3>2 DEF Refreshing
    <3>3. CASE q # r
      <4>1. \E l, t, g : Enter(r, l, t, g)
        BY <2>2 DEF Login, RotateLookup, LogoutLookup
      <4> QED
        BY <3>1, <3>3, <4>1, OthersStay
    <3> QED
      BY <3>2, <3>3
  <2> QED
    BY <1>6, <2>1, <2>2 DEF Arrive
<1>7. ASSUME NEW r \in Calls, End(r), NEW x \in Tokens \cup {"refused", "done", "failed"},
             Answer(r, x)
      PROVE  Goal(q)
  <2>1. q # r
    BY <1>0, <1>7 DEF End
  <2>2. call'[q] = call[q]
    BY <1>7, <2>1, AnswerEffect
  <2> QED
    BY <1>0, <1>7, <2>1, <2>2, OthersStay
<1>8. ASSUME NEW r \in Requests, Handle(r)
      PROVE  Goal(q)
  <2>1. CASE Consume(r) /\ UNCHANGED call
    <3>1. CASE q = r
      BY <2>1, <3>1
    <3>2. CASE q # r
      <4>1. (\E l, t, g : Enter(r, l, t, g)) /\ call'[q] = call[q]
        BY <2>1 DEF Consume
      <4> QED
        BY <3>2, <4>1, OthersStay
    <3> QED
      BY <3>1, <3>2
  <2>2. CASE RevokeFamily(r) /\ Answer(r, IF call[r].kind = "logout" THEN "done" ELSE "refused")
    <3> HIDE DEF Goal
    <3> QED
      BY <1>7, <1>8, <2>2 DEF RevokeFamily, Handle
  <2>3. CASE \E t \in Tokens : CreateRefresh(r, t) /\ Answer(r, t)
    <3> HIDE DEF Goal
    <3> QED
      BY <1>7, <1>8, <2>3 DEF CreateRefresh, Handle
  <2> QED
    BY <1>8, <2>1, <2>2, <2>3 DEF Handle
<1>9. ASSUME NEW r \in Requests, HandlerFails(r)
      PROVE  Goal(q)
  <2> HIDE DEF Goal
  <2> QED
    BY <1>7, <1>9 DEF HandlerFails, Fail
<1>10. ASSUME NEW r \in Requests, Deliver(r)
       PROVE  Goal(q)
  <2>1. UNCHANGED vars /\ Answered(r)
        /\ (q # r => call'[q] = call[q] \/ Dropped(q))
    BY <1>10, DeliverEffect
  <2>2. q # r
    BY <1>2, <2>1 DEF Answered
  <2> HIDE DEF Goal
  <2> QED
    BY <1>3, <1>d, <2>1, <2>2
<1>11. ASSUME NEW r \in Requests, Break(r)
       PROVE  Goal(q)
  <2>1. /\ UNCHANGED vars
        /\ q = r => Fixed(q) /\ SameResult(q)
        /\ q # r => call'[q] = call[q] \/ Dropped(q)
    BY <1>11, BreakEffect DEF SameResult
  <2> HIDE DEF Goal
  <2> QED
    BY <1>1, <1>3, <1>d, <2>1
<1> HIDE DEF Goal
<1>12. UNCHANGED allVars => Goal(q)
  BY <1>3 DEF allVars, sessionVars
<1> QED
  BY <1>0, <1>4, <1>5, <1>6, <1>8, <1>9, <1>10, <1>11, <1>12, StepCases

LEMMA RowsStay ==
  ASSUME Types, [SessionNext]_allVars
  PROVE  /\ Inv' /\ [Next]_vars
         /\ None \notin Stored /\ None \notin Stored' /\ Stored' \subseteq Tokens
         /\ \A t \in Stored : /\ t \in Stored' /\ row'[t].family = row[t].family
                              /\ row'[t].user = row[t].user
                              /\ row[t].revoked => row'[t].revoked
<1>1. Inv' /\ [Next]_vars
  BY SessionSteps, InvNext DEF Types
<1>2. Stored \subseteq Tokens /\ Stored' \subseteq Tokens
  BY <1>1 DEF Types, Inv, TypeOK
<1> QED
  BY <1>1, <1>2, RowsAreKept, WordsAreNoTokens DEF Types

LEMMA RunningNext ==
  ASSUME Types, CallsOK, Running, [SessionNext]_allVars
  PROVE  Running'
<1> SUFFICES ASSUME NEW q \in Requests, pc'[q] # "idle"
             PROVE  RunOK(q)'
  BY DEF Running, RunOK
<1>0. /\ pc \in [Requests -> {"idle", "revoke", "consume", "create"}]
      /\ presented \in [Requests -> Tokens \cup {None}]
      /\ grant \in [Requests -> Grant \cup {None}]
  BY DEF Types, Inv, TypeOK
<1>1. CASE Stays(q)
  <2>1. RunOK(q)
    BY DEF Running
  <2> QED
    BY <1>1, <2>1, RowsStay DEF Stays, Fixed, SameResult, RunOK
<1>2. CASE Consume(q) /\ UNCHANGED call
  <2>1. RunOK(q) /\ pc[q] = "consume" /\ pc'[q] = "create" /\ grant'[q] = grant[q]
    BY <1>0, <1>2 DEF Running, Consume, Enter
  <2>2. q \in Calls' /\ call'[q] = call[q]
    BY <1>2, <2>1 DEF RunOK, Calls
  <2> QED
    BY <2>1, <2>2, RowsStay DEF RunOK, Refreshing
<1>3. CASE Enters(q) /\ call[q].kind = "login" /\ \E u \in Users, f \in Families : Login(q, u, f)
  <2>1. pc'[q] = "create"
    BY <1>0, <1>3 DEF Login, Enter
  <2> QED
    BY <1>3, <2>1 DEF RunOK, Enters, Fixed
<1>4. ASSUME Enters(q), call[q].kind # "login", NEW l, Enter(q, l, call[q].sent, GrantOf(call[q].sent)),
             call[q].sent \in Stored, UNCHANGED row,
             \/ l = "revoke"
             \/ l = "consume" /\ call[q].kind \in Refreshing
      PROVE  RunOK(q)'
  <2>1. pc'[q] = l /\ presented'[q] = call[q].sent /\ grant'[q] = GrantOf(call[q].sent)
    BY <1>0, <1>4 DEF Enter
  <2>2. grant'[q].family = row[call[q].sent].family
    BY <2>1 DEF GrantOf
  <2>3. row' = row /\ Stored' = Stored
    BY <1>4 DEF Stored
  <2> QED
    BY <1>4, <2>1, <2>2, <2>3 DEF RunOK, Enters, Fixed
<1>5. CASE Enters(q) /\ call[q].kind \in Refreshing /\ RotateLookup(q, call[q].sent)
  <2>1. call[q].kind # "login"
    BY <1>5 DEF Refreshing
  <2> QED
    BY <1>4, <1>5, <2>1 DEF RotateLookup
<1>6. CASE Enters(q) /\ call[q].kind = "logout" /\ LogoutLookup(q, call[q].sent)
  BY <1>4, <1>6 DEF LogoutLookup
<1> QED
  BY <1>1, <1>2, <1>3, <1>5, <1>6, PcSteps

\* A new token, and the family it goes into.
LEMMA NewToken ==
  ASSUME Types, Running, NEW q \in Requests, NEW t \in Tokens, CreateRefresh(q, t)
  PROVE  /\ t \notin Stored /\ Stored' = Stored \cup {t}
         /\ row'[t].family = grant[q].family /\ ~row'[t].revoked /\ ~row'[t].expired
         /\ \A s \in Stored : row'[s] = row[s]
         /\ q \in Calls /\ call[q].result = "running" /\ pc[q] = "create"
         /\ call[q].kind = "login" \/ call[q].kind \in Refreshing
         /\ call[q].kind # "login" =>
              call[q].sent \in Stored /\ row[call[q].sent].family = grant[q].family
<1>1. pc[q] = "create" /\ RunOK(q)
  BY DEF CreateRefresh, Running
<1>2. q \in Calls /\ call[q].kind \in {"restore", "refresh", "again", "login", "logout"}
  BY <1>1, CallTyped, CallFields DEF RunOK
<1>3. row'[t] = [family  |-> grant[q].family, user    |-> grant[q].user,
                 revoked |-> FALSE,           expired |-> FALSE]
  BY TableAfterCreateRefresh DEF Types, Inv
<1>4. t \notin Stored /\ Stored' = Stored \cup {t} /\ \A s \in Stored : row'[s] = row[s]
  BY TableAfterCreateRefresh DEF Types, Inv
<1> QED
  BY <1>1, <1>2, <1>3, <1>4 DEF RunOK, Refreshing

LEMMA CallsNext ==
  ASSUME Types, CallsOK, Running, [SessionNext]_allVars
  PROVE  CallsOK'
<1> SUFFICES ASSUME NEW q \in Calls'
             PROVE  CallOK(q)'
  BY DEF CallsOK
<1>0. /\ \A w \in {"wire", "running", "refused", "done", "failed"} : w \notin Tokens
      /\ history.leaving \subseteq history'.leaving
  BY WordsAreNoTokens, HistorySteps DEF Grows
<1>1. ASSUME NEW t \in Stored \cup {None}
      PROVE  /\ t \in Stored' \cup {None} /\ (t \in Stored' <=> t \in Stored)
             /\ t \in Stored => row'[t].family = row[t].family
  BY RowsStay
<1>2. CASE Fixed(q)
  <2>1. CallOK(q) /\ q \in Calls
    BY <1>2 DEF Fixed, CallsOK
  <2>2. call'[q].sent \in Stored' \cup {None}
    BY <1>1, <1>2, <2>1 DEF CallOK, Fixed
  <2>3. (call[q].kind = "logout" => FamilyOf(call[q].sent) \subseteq history.leaving)'
    <3> DEFINE t == call[q].sent
    <3>1. t \in Stored \cup {None} /\ call'[q].sent = t
      BY <1>2, <2>1 DEF CallOK, Fixed
    <3>2. /\ t \in Stored' <=> t \in Stored
          /\ t \in Stored => row'[t].family = row[t].family
      BY <1>1, <3>1
    <3>3. call[q].kind = "logout" => FamilyOf(t) \subseteq history.leaving
      BY <2>1 DEF CallOK
    <3>4. call'[q].kind = call[q].kind
      BY <1>2 DEF Fixed
    <3> QED
      BY <1>0, <3>1, <3>2, <3>3, <3>4 DEF FamilyOf
  <2>4. CASE SameResult(q)
    BY <1>2, <2>1, <2>2, <2>3, <2>4, RowsStay DEF CallOK, Fixed, SameResult
  <2>5. CASE call'[q].result \in {"running", "refused", "failed"}
    BY <1>0, <2>2, <2>3, <2>5 DEF CallOK
  <2>6. CASE Done(q)
    BY <1>0, <1>2, <2>2, <2>3, <2>6 DEF CallOK, Done, Fixed
  <2>7. ASSUME NEW t \in Tokens, Granted(q, t)
        PROVE  CallOK(q)'
    <3>1. q \in Requests
      BY DEF Calls
    <3>2. /\ Stored' = Stored \cup {t} /\ row'[t].family = grant[q].family
          /\ \A s \in Stored : row'[s] = row[s]
          /\ call[q].kind = "login" \/ call[q].kind \in Refreshing
          /\ call[q].kind # "login" =>
               call[q].sent \in Stored /\ row[call[q].sent].family = grant[q].family
      BY <2>7, <3>1, NewToken DEF Granted
    <3>3. t # "done" /\ call'[q].result = t
      BY <1>0, <2>7 DEF Granted
    <3> QED
      BY <1>2, <2>2, <2>3, <3>2, <3>3 DEF CallOK, Fixed, Refreshing
  <2>8. Goes(q)
    <3>1. ASSUME NEW tab \in Tabs, NEW kind, Sends(q, tab, kind)
          PROVE  FALSE
      <4>1. q \in Requests
        BY DEF Calls
      <4> QED
        BY <1>2, <3>1, <4>1, SendEffect DEF Fixed
    <3> QED
      BY <3>1, CallSteps DEF New
  <2> QED
    BY <2>4, <2>5, <2>6, <2>7, <2>8 DEF Goes
<1>3. ASSUME NEW tab \in Tabs, NEW kind, Sends(q, tab, kind)
      PROVE  CallOK(q)'
  <2>0. q \in Requests
    BY DEF Calls
  <2>1. /\ call'[q].kind = kind /\ call'[q].sent = cookie /\ call'[q].result = "wire"
        /\ kind = "logout" => FamilyOf(cookie) \subseteq history'.leaving
    BY <1>3, <2>0, SendEffect, SendNotes
  <2>2. /\ cookie \in Stored' \cup {None}
        /\ cookie \in Stored' <=> cookie \in Stored
        /\ cookie \in Stored => row'[cookie].family = row[cookie].family
    BY <1>1 DEF Types
  <2>3. (call[q].kind = "logout" => FamilyOf(call[q].sent) \subseteq history.leaving)'
    BY <2>1, <2>2 DEF FamilyOf
  <2> QED
    BY <1>0, <2>1, <2>2, <2>3 DEF CallOK
<1> QED
  BY <1>2, <1>3, CallSteps DEF Goes, New

SInv == Types /\ CallsOK /\ Running

LEMMA SInvInit == SessionInit => SInv
<1> SUFFICES ASSUME SessionInit
             PROVE  SInv
  OBVIOUS
<1>1. \A r \in Requests : pc[r] = "idle"
  BY DEF SessionInit, Init
<1> QED
  BY <1>1, TypesInit DEF SInv, Running, RunOK

LEMMA SInvNext == SInv /\ [SessionNext]_allVars => SInv'
  BY TypesNext, CallsNext, RunningNext DEF SInv

\* The variables of a session keep their types, and the cookie is a token the
\* server has stored (auth.controller.ts: setRefreshCookie).
THEOREM SessionTypes == SessionSpec => []SessionTypeOK
<1>1. SInv => SessionTypeOK
  BY DEF SInv, Types, SessionTypeOK, Inv, History
<1> QED
  BY <1>1, SInvInit, SInvNext, PTL DEF SessionSpec

-----------------------------------------------------------------------------
(* A step sends one request, or every request that goes on was there.      *)

LEMMA SendOrGo ==
  ASSUME Types, [SessionNext]_allVars
  PROVE  \/ \E r \in Requests, tab \in Tabs,
               kind \in {"restore", "refresh", "again", "login", "logout"} :
              /\ Sends(r, tab, kind)
              /\ \A q \in Calls' \ {r} : Fixed(q) /\ call'[q] = call[q]
         \/ \A q \in Calls' : Goes(q)
<1>1. ASSUME NEW r \in Calls', New(r)
      PROVE  \E tab \in Tabs, kind \in {"restore", "refresh", "again", "login", "logout"} :
               /\ Sends(r, tab, kind)
               /\ \A q \in Calls' \ {r} : Fixed(q) /\ call'[q] = call[q]
  <2>1. r \in Requests /\ \A q \in Calls' : q \in Requests
    BY DEF Calls
  <2>2. PICK tab \in Tabs, kind \in {"restore", "refresh", "again", "login", "logout"} :
               Sends(r, tab, kind)
    BY <1>1 DEF New
  <2>3. \A q \in Calls' \ {r} : call'[q] = call[q]
    BY <2>1, <2>2, SendEffect
  <2>4. \A q \in Calls' \ {r} : q \in Calls
    BY <2>1, <2>3 DEF Calls
  <2> QED
    BY <2>2, <2>3, <2>4 DEF Fixed
<1>2. \A r \in Calls' : r \in Requests
  BY DEF Calls
<1> QED
  BY <1>1, <1>2, CallSteps

-----------------------------------------------------------------------------
(* One refresh at a time in a tab (api.ts: `refreshing ??=`), and none      *)
(* beside a restore.                                                       *)

Splash == {"restore", "again"}

OnePerTab ==
  /\ \A r \in Refreshes, q \in Calls : call[r].tab # None /\ call[q].tab = call[r].tab =>
       /\ call[q].kind \in Refreshing => q = r
       /\ call[r].kind # "refresh" => q = r
  /\ \A r \in Refreshes : call[r].tab # None /\ call[r].kind # "refresh" =>
       page[call[r].tab].next # "ready"

LEMMA SendsAlone ==
  ASSUME Types, OnePerTab, NEW r \in Requests, NEW tab \in Tabs, NEW kind, Sends(r, tab, kind)
  PROVE  \A q \in Calls : call[q].tab = tab =>
           /\ call[q].kind \notin Splash /\ kind \notin Splash
           /\ kind \in Refreshing => call[q].kind \notin Refreshing
<1> SUFFICES ASSUME NEW q \in Calls, call[q].tab = tab
             PROVE  /\ call[q].kind \notin Splash /\ kind \notin Splash
                    /\ kind \in Refreshing => call[q].kind \notin Refreshing
  OBVIOUS
<1>1. q \in Of(tab) /\ tab # None
  BY WordsAreNoTokens DEF Of
<1>2. page[tab].next = "ready" => call[q].kind \notin Splash
  BY <1>1 DEF OnePerTab, Refreshes, Refreshing, Splash
<1>3. ~Restore(r, tab)
  BY <1>1 DEF Restore, Owing
<1> QED
  BY <1>1, <1>2, <1>3 DEF Sends, Unauthorized, Submit, Refreshing, Splash

LEMMA OnePerTabNext ==
  ASSUME SInv, OnePerTab, [SessionNext]_allVars
  PROVE  OnePerTab'
<1>0. Types /\ page \in [Tabs -> Page] /\ \A q \in Calls' : q \in Requests
  BY DEF SInv, Types, Calls
<1>1. ASSUME NEW r \in Requests, NEW tab \in Tabs, NEW kind, Sends(r, tab, kind),
             \A q \in Calls' \ {r} : Fixed(q) /\ call'[q] = call[q]
      PROVE  OnePerTab'
  <2>1. /\ r \in Calls' /\ call'[r].tab = tab /\ call'[r].kind = kind /\ UNCHANGED page
        /\ tab # None
    BY <1>0, <1>1, SendEffect, WordsAreNoTokens
  <2>2. \A q \in Calls : call[q].tab = tab =>
           /\ call[q].kind \notin Splash /\ kind \notin Splash
           /\ kind \in Refreshing => call[q].kind \notin Refreshing
    BY <1>0, <1>1, SendsAlone
  <2>3. \A q \in Calls' \ {r} : q \in Calls /\ call'[q] = call[q]
    BY <1>1 DEF Fixed
  <2>4. ASSUME NEW p \in Refreshes', NEW q \in Calls', call'[p].tab # None,
               call'[q].tab = call'[p].tab
        PROVE  /\ call'[q].kind \in Refreshing => q = p
               /\ call'[p].kind # "refresh" => q = p
    <3>1. p \in Calls' /\ call'[p].kind \in Refreshing
      BY DEF Refreshes
    <3>2. CASE p = r /\ q # r
      BY <2>1, <2>2, <2>3, <2>4, <3>1, <3>2 DEF Refreshing, Splash
    <3>3. CASE p # r /\ q = r
      <4>1. p \in Calls /\ call[p].tab = tab /\ call[p].kind \in Refreshing
        BY <2>1, <2>3, <2>4, <3>1, <3>3
      <4> QED
        BY <2>1, <2>2, <2>3, <3>1, <3>3, <4>1 DEF Refreshing, Splash
    <3>4. CASE p # r /\ q # r
      <4>1. p \in Refreshes /\ q \in Calls /\ call'[p] = call[p] /\ call'[q] = call[q]
        BY <2>3, <3>1, <3>4 DEF Refreshes
      <4> QED
        BY <2>4, <4>1 DEF OnePerTab
    <3> QED
      BY <3>2, <3>3, <3>4
  <2>5. ASSUME NEW p \in Refreshes', call'[p].tab # None, call'[p].kind # "refresh"
        PROVE  page'[call'[p].tab].next # "ready"
    <3>1. p \in Calls' /\ call'[p].kind \in Refreshing
      BY DEF Refreshes
    <3>2. CASE p = r
      BY <1>1, <2>1, <2>5, <3>1, <3>2 DEF Sends, Refreshing
    <3>3. CASE p # r
      <4>1. p \in Refreshes /\ call'[p] = call[p]
        BY <2>3, <3>1, <3>3 DEF Refreshes
      <4> QED
        BY <2>1, <2>5, <4>1 DEF OnePerTab
    <3> QED
      BY <3>2, <3>3
  <2> QED
    BY <2>4, <2>5 DEF OnePerTab
<1>2. ASSUME \A q \in Calls' : Goes(q)
      PROVE  OnePerTab'
  <2>1. \A q \in Calls' : /\ q \in Calls /\ call'[q].kind = call[q].kind
                          /\ call'[q].tab # None => call'[q].tab = call[q].tab
    BY <1>2 DEF Goes, Fixed
  <2>2. ASSUME NEW p \in Refreshes', NEW q \in Calls', call'[p].tab # None,
               call'[q].tab = call'[p].tab
        PROVE  /\ call'[q].kind \in Refreshing => q = p
               /\ call'[p].kind # "refresh" => q = p
    <3>1. p \in Calls' /\ p \in Refreshes
      BY <2>1 DEF Refreshes
    <3> QED
      BY <2>1, <2>2, <3>1 DEF OnePerTab
  <2>3. ASSUME NEW p \in Refreshes', call'[p].tab # None, call'[p].kind # "refresh"
        PROVE  page'[call'[p].tab].next # "ready"
    <3>1. p \in Calls' /\ p \in Refreshes /\ p \in Requests
      BY <1>0, <2>1 DEF Refreshes
    <3> DEFINE tab == call[p].tab
    <3>2. /\ call'[p].tab = tab /\ tab # None /\ call[p].kind # "refresh"
          /\ page[tab].next # "ready" /\ p \in Calls
      BY <2>1, <2>3, <3>1 DEF OnePerTab
    <3>3. \A q \in Calls : call[q].tab = tab => q = p
      BY <3>1, <3>2 DEF OnePerTab
    <3> SUFFICES page'[tab] = page[tab]
      BY <3>2
    <3>a. tab \in Tabs
      BY <1>0, <3>2, CallTyped, CallFields
    <3>b. p \in Calls'
      BY DEF Refreshes
    <3> HIDE DEF tab
    <3>4. ASSUME NEW q \in Requests, Deliver(q)
          PROVE  page'[tab] = page[tab]
      <4>1. q \in Calls /\ q # p
            /\ page' = [page EXCEPT ![call[q].tab] =
                          PageAfter(page[call[q].tab], call[q].kind, call[q].result)]
        BY <1>0, <3>1, <3>4, <3>b, DeliverEffect
      <4> QED
        BY <1>0, <3>3, <3>a, <4>1
    <3>5. ASSUME NEW q \in Requests, Break(q)
          PROVE  page'[tab] = page[tab]
      <4>1. q \in Calls /\ q # p
            /\ page' = [page EXCEPT ![call[q].tab] =
                          PageAfter(page[call[q].tab], call[q].kind, "failed")]
        BY <1>0, <3>1, <3>2, <3>5, BreakEffect DEF tab
      <4> QED
        BY <1>0, <3>3, <3>a, <4>1
    <3>6. ASSUME NEW s \in Tabs, NEW at \in {"login", "app"}, Reload(s, at)
          PROVE  page'[tab] = page[tab]
      <4>1. s # tab
        BY <1>0, <3>1, <3>2, <3>6, <3>b, ReloadEffect DEF Of, Dropped, tab
      <4> QED
        BY <1>0, <3>6, <3>a, <4>1 DEF Reload
    <3>7. ASSUME NEW q \in Requests, Arrive(q) \/ Handle(q) \/ HandlerFails(q)
          PROVE  page'[tab] = page[tab]
      BY <3>7 DEF Arrive, Handle, HandlerFails
    <3>8. ASSUME NEW q \in Requests, NEW s \in Tabs, NEW kind, Sends(q, s, kind)
          PROVE  page'[tab] = page[tab]
      BY <1>0, <3>8, SendEffect
    <3>9. UNCHANGED allVars => page'[tab] = page[tab]
      BY DEF allVars, sessionVars
    <3> QED
      BY <1>0, <3>4, <3>5, <3>6, <3>7, <3>8, <3>9, StepCases
  <2> QED
    BY <2>2, <2>3 DEF OnePerTab
<1> QED
  BY <1>0, <1>1, <1>2, SendOrGo

-----------------------------------------------------------------------------
(* Why a good session is not taken for a reused one: of a family that has  *)
(* no excuse to end, each token is presented by one refresh at most, the   *)
(* cookie is the newest token or about to be replaced by it, and a request *)
(* that has not arrived carries a token nobody has spent.                  *)

Fresh == \A t \in Stored : ~row[t].expired

OnePresents == \A q, r \in Refreshes :
  call[q].sent = call[r].sent /\ Clean(call[r].sent) => q = r

CookieIsFresh == Clean(cookie) /\ row[cookie].revoked =>
  \E r \in Refreshes : call[r].sent = cookie /\ (pc[r] = "create" \/ call[r].result \in Tokens)

NewResult(r) ==
  call[r].result \in Tokens =>
    /\ call[r].result # cookie
    /\ \A q \in Calls : call[q].sent # call[r].result
    /\ \A q \in Calls : call[q].result = call[r].result => q = r
    /\ Clean(call[r].result) => ~row[call[r].result].revoked
ResultsAreNew == \A r \in Calls : NewResult(r)

WireIsGood == \A r \in Refreshes :
  call[r].result = "wire" /\ Clean(call[r].sent) => ~row[call[r].sent].revoked

RevokesExcused == \A r \in Requests : pc[r] = "revoke" => grant[r].family \in Excused

Rotating == /\ Fresh /\ OnePresents /\ CookieIsFresh /\ ResultsAreNew /\ WireIsGood
            /\ RevokesExcused

LEMMA ExcusesGrow ==
  ASSUME Types, [SessionNext]_allVars
  PROVE  /\ Excused \subseteq Excused'
         /\ \A t \in Stored : row'[t].family \notin Excused' => Clean(t)
  BY HistorySteps, RowsStay DEF Grows, Excused, Clean

LEMMA ConsumerIsRefresh ==
  ASSUME SInv, [SessionNext]_allVars, NEW q \in Requests, Consume(q)
  PROVE  /\ q \in Refreshes /\ call[q].result = "running"
         /\ call[q].sent = presented[q] /\ call[q].sent \in Stored
         /\ pc'[q] = "create" /\ UNCHANGED call
<1>1. pc[q] = "consume" /\ RunOK(q) /\ Types /\ Running
  BY DEF Consume, SInv, Running
<1>2. q \in Refreshes /\ call[q].sent = presented[q] /\ call[q].result = "running"
  BY <1>1 DEF RunOK, Refreshes
<1>3. call[q].sent \in Stored
  BY <1>1, <1>2 DEF Types, Inv, Carried
<1>4. pc'[q] = "create"
  BY <1>1 DEF Consume, Enter, Types, Inv, TypeOK
<1>5. ~Stays(q)
  BY <1>1, <1>4 DEF Stays
<1>6. ~Enters(q)
  BY <1>2 DEF Enters
<1> QED
  BY <1>1, <1>2, <1>3, <1>4, <1>5, <1>6, PcSteps

\* Who revokes a token of a family without excuse: a refresh that spends it.
LEMMA RevokedBySpending ==
  ASSUME SInv, RevokesExcused, [SessionNext]_allVars, NEW t \in Stored,
         Clean(t), ~row[t].revoked, row'[t].revoked
  PROVE  \E q \in Refreshes : /\ Consume(q) /\ call[q].sent = t
                              /\ call[q].result = "running"
                              /\ pc'[q] = "create" /\ UNCHANGED call
<1>0. Types /\ [Next]_vars /\ TypeOK /\ Carried /\ row[t] \in Row
  BY RowsStay DEF SInv, Types, Inv, TypeOK
<1>1. ASSUME NEW q \in Requests, Consume(q)
      PROVE  call[q].sent = t
  <2>1. \A s \in Stored : row'[s] = IF s = presented[q]
                                      THEN [row[s] EXCEPT !.revoked = TRUE] ELSE row[s]
    BY <1>0, <1>1, TableAfterConsume
  <2>2. presented[q] = t
    BY <2>1
  <2> QED
    BY <1>1, <2>2, ConsumerIsRefresh
<1>2. ASSUME NEW q \in Requests, RevokeFamily(q)
      PROVE  FALSE
  <2>1. \A s \in Stored : row'[s] = IF row[s].family = grant[q].family
                                      THEN [row[s] EXCEPT !.revoked = TRUE] ELSE row[s]
    BY <1>0, <1>2, TableAfterRevokeFamily
  <2>2. grant[q].family = row[t].family
    BY <2>1
  <2> QED
    BY <1>2, <2>2 DEF RevokesExcused, RevokeFamily, Clean
<1>3. ASSUME NEW q \in Requests, NEW s \in Tokens, CreateRefresh(q, s)
      PROVE  FALSE
  BY <1>0, <1>3, TableAfterCreateRefresh
<1>4. ASSUME NEW s \in Tokens, Expire(s)
      PROVE  FALSE
  <2>1. row'[t] = IF t = s THEN [row[t] EXCEPT !.expired = TRUE] ELSE row[t]
    BY <1>0, <1>4, TableAfterExpire
  <2> QED
    BY <1>0, <2>1 DEF Row
<1>5. ~UNCHANGED row
  OBVIOUS
<1> QED
  BY <1>0, <1>1, <1>2, <1>3, <1>4, <1>5, TableSteps, ConsumerIsRefresh

LEMMA FreshNext ==
  ASSUME SInv, Fresh, [SessionNext]_allVars
  PROVE  Fresh'
<1>0. Types /\ Running /\ [Next]_vars /\ TypeOK /\ Carried /\ \A t \in Stored : row[t] \in Row
  BY RowsStay DEF SInv, Types, Inv, TypeOK
<1>1. CASE UNCHANGED row
  BY <1>1 DEF Fresh, Stored
<1>2. ASSUME NEW q \in Requests, RevokeFamily(q)
      PROVE  Fresh'
  <2>1. /\ Stored' = Stored
        /\ \A s \in Stored : row'[s] = IF row[s].family = grant[q].family
                                         THEN [row[s] EXCEPT !.revoked = TRUE] ELSE row[s]
    BY <1>0, <1>2, TableAfterRevokeFamily
  <2>2. \A s \in Stored : row'[s].expired = row[s].expired
    BY <1>0, <2>1 DEF Row
  <2> QED
    BY <2>1, <2>2 DEF Fresh
<1>3. ASSUME NEW q \in Requests, Consume(q)
      PROVE  Fresh'
  <2>1. /\ Stored' = Stored
        /\ \A s \in Stored : row'[s] = IF s = presented[q]
                                         THEN [row[s] EXCEPT !.revoked = TRUE] ELSE row[s]
    BY <1>0, <1>3, TableAfterConsume
  <2>2. \A s \in Stored : row'[s].expired = row[s].expired
    BY <1>0, <2>1 DEF Row
  <2> QED
    BY <2>1, <2>2 DEF Fresh
<1>4. ASSUME NEW q \in Requests, NEW t \in Tokens, CreateRefresh(q, t)
      PROVE  Fresh'
  BY <1>0, <1>4, NewToken DEF Fresh
<1>5. ~\E t \in Tokens : Expire(t)
  <2>1. ASSUME NEW t \in Tokens, Expire(t)
        PROVE  FALSE
    <3>1. UNCHANGED pc /\ ~UNCHANGED row
      <4>1. row' = [row EXCEPT ![t] = [row[t] EXCEPT !.expired = TRUE]]
            /\ t \in Stored /\ ~row[t].expired
        BY <2>1 DEF Expire
      <4>2. row'[t] = [row[t] EXCEPT !.expired = TRUE] /\ row[t] \in Row
        BY <1>0, <4>1 DEF Stored
      <4>3. row'[t].expired
        BY <4>2 DEF Row
      <4> QED
        BY <2>1, <4>1, <4>3 DEF Expire
    <3>2. ASSUME NEW r \in Requests, Arrive(r) \/ Handle(r) \/ HandlerFails(r)
          PROVE  UNCHANGED row \/ pc'[r] # pc[r]
      <4>1. pc \in [Requests -> {"idle", "revoke", "consume", "create"}]
        BY <1>0 DEF TypeOK
      <4>2. RevokeFamily(r) \/ (\E s \in Tokens : CreateRefresh(r, s)) => pc'[r] # pc[r]
        BY <4>1 DEF RevokeFamily, CreateRefresh, End
      <4>3. Consume(r) => pc'[r] # pc[r]
        BY <4>1 DEF Consume, Enter
      <4> QED
        BY <3>2, <4>2, <4>3
        DEF Arrive, Handle, HandlerFails, Login, RotateLookup, LogoutLookup, Fail, vars
    <3>3. ASSUME NEW q \in Requests, NEW s \in Tabs, NEW kind, Sends(q, s, kind)
          PROVE  UNCHANGED row
      BY <1>0, <3>3, SendEffect DEF vars
    <3>4. page \in [Tabs -> Page]
      BY <1>0 DEF Types
    <3> QED
      BY <3>1, <3>2, <3>3, <3>4, StepCases DEF Reload, Deliver, Break, allVars, vars
  <2> QED
    BY <2>1
<1> QED
  BY <1>0, <1>1, <1>2, <1>3, <1>4, <1>5, TableSteps

LEMMA OnePresentsNext ==
  ASSUME SInv, OnePerTab, OnePresents, [SessionNext]_allVars
  PROVE  OnePresents'
<1>0. Types /\ \A q \in Calls' : q \in Requests
  BY DEF SInv, Calls
<1>1. ASSUME NEW q \in Refreshes, NEW r \in Refreshes, call[q].sent = call[r].sent,
             Clean(call[r].sent)
      PROVE  q = r
  BY <1>1 DEF OnePresents
<1>2. \A t \in Stored' : t \in Stored /\ row'[t].family \notin Excused' => Clean(t)
  BY <1>0, ExcusesGrow
<1>3. \A r \in Refreshes : call[r].sent \in Stored \cup {None}
  BY DEF Refreshes, SInv, CallsOK, CallOK
<1>4. None \notin Stored'
  BY <1>0, RowsStay
<1>5. ASSUME NEW q \in Refreshes', NEW r \in Refreshes', q \in Refreshes, r \in Refreshes,
             call'[q].sent = call[q].sent, call'[r].sent = call[r].sent,
             call'[q].sent = call'[r].sent, Clean(call[r].sent)'
      PROVE  q = r
  BY <1>1, <1>2, <1>3, <1>4, <1>5 DEF Clean
<1>6. ASSUME \A q \in Calls' : Goes(q)
      PROVE  OnePresents'
  <2>1. \A q \in Refreshes' : q \in Refreshes /\ call'[q].sent = call[q].sent
    BY <1>6 DEF Goes, Fixed, Refreshes
  <2> QED
    BY <1>5, <2>1 DEF OnePresents
<1>7. ASSUME NEW r \in Requests, NEW tab \in Tabs, NEW kind, Sends(r, tab, kind),
             \A q \in Calls' \ {r} : Fixed(q) /\ call'[q] = call[q]
      PROVE  OnePresents'
  <2>1. \A q \in Refreshes' \ {r} : q \in Refreshes /\ call'[q] = call[q]
    BY <1>7 DEF Fixed, Refreshes
  <2>2. ASSUME NEW q \in Refreshes' \ {r}, r \in Refreshes', call'[q].sent = call'[r].sent,
               Clean(call[r].sent)'
        PROVE  FALSE
    <3>1. /\ call'[r].sent = cookie /\ call'[r].kind = kind /\ UNCHANGED vars
      BY <1>0, <1>7, SendEffect
    <3>2. kind \in Refreshing /\ kind # "login"
      BY <2>2, <3>1 DEF Refreshes, Refreshing
    <3>3. q \in Refreshes /\ q \in Calls /\ call[q].sent = cookie /\ call[q].kind # "login"
      BY <2>1, <2>2, <3>1 DEF Refreshes, Refreshing
    <3>4. q \in UnderWay(FamilyOf(cookie))
      BY <3>3 DEF UnderWay
    <3>5. call[q].tab # tab
      BY <1>0, <1>7, <3>2, <3>3, SendsAlone DEF Refreshes
    <3>6. FamilyOf(cookie) \subseteq history'.overlapped
      BY <1>0, <1>7, <3>2, <3>3, <3>4, <3>5, SendNotes
    <3>7. Stored' = Stored /\ row' = row
      BY <3>1 DEF vars, Stored
    <3>8. cookie \in Stored /\ row[cookie].family \notin Excused'
      BY <2>2, <3>1, <3>7 DEF Clean
    <3> QED
      BY <3>6, <3>8 DEF FamilyOf, Excused
  <2>3. ASSUME NEW q \in Refreshes', r \in Refreshes', call'[q].sent = call'[r].sent,
               Clean(call[q].sent)'
        PROVE  Clean(call[r].sent)'
    BY <2>3 DEF Clean
  <2>4. ASSUME NEW p \in Refreshes', NEW q \in Refreshes', call'[p].sent = call'[q].sent,
               Clean(call[q].sent)'
        PROVE  p = q
    <3>1. CASE p # r /\ q # r
      BY <1>5, <2>1, <2>4, <3>1
    <3>2. CASE p # r /\ q = r
      BY <2>2, <2>4, <3>2
    <3>3. CASE p = r /\ q # r
      BY <2>2, <2>3, <2>4, <3>3
    <3> QED
      BY <3>1, <3>2, <3>3
  <2> QED
    BY <2>4 DEF OnePresents
<1> QED
  BY <1>0, <1>6, <1>7, SendOrGo

LEMMA WireIsGoodNext ==
  ASSUME SInv, OnePresents, OnePresents', CookieIsFresh, WireIsGood, RevokesExcused,
         [SessionNext]_allVars
  PROVE  WireIsGood'
<1> SUFFICES ASSUME NEW r \in Refreshes', call'[r].result = "wire", Clean(call[r].sent)',
                    row'[call'[r].sent].revoked
             PROVE  FALSE
  BY DEF WireIsGood
<1>0. Types /\ CallsOK /\ r \in Calls' /\ r \in Requests
  BY DEF SInv, Refreshes, Calls
<1>1. CASE Goes(r)
  <2>1. r \in Refreshes /\ call'[r].sent = call[r].sent
    BY <1>0, <1>1 DEF Goes, Fixed, Refreshes
  <2>2. call[r].result = "wire"
    <3>1. ~\E t \in Tokens : Granted(r, t)
      BY WordsAreNoTokens DEF Granted
    <3> QED
      BY <1>1, <3>1 DEF Goes, SameResult, Done
  <2>3. call[r].sent \in Stored /\ Clean(call[r].sent)
    <3>1. call[r].sent \in Stored \cup {None}
      BY <1>0, <2>1 DEF Refreshes, CallsOK, CallOK
    <3> QED
      BY <1>0, <2>1, <3>1, ExcusesGrow, RowsStay DEF Clean
  <2>4. ~row[call[r].sent].revoked
    BY <2>1, <2>2, <2>3 DEF WireIsGood
  <2>5. PICK q \in Refreshes : Consume(q) /\ call[q].sent = call[r].sent
                               /\ call[q].result = "running"
    BY <2>1, <2>3, <2>4, RevokedBySpending
  <2> QED
    BY <2>1, <2>2, <2>3, <2>5 DEF OnePresents
<1>2. ASSUME NEW tab \in Tabs, NEW kind, Sends(r, tab, kind)
      PROVE  FALSE
  <2>1. /\ call'[r].sent = cookie /\ r \notin Calls /\ UNCHANGED vars
        /\ \A q \in Requests \ {r} : call'[q] = call[q]
    BY <1>0, <1>2, SendEffect
  <2>2. Stored' = Stored /\ row' = row
    BY <2>1 DEF vars, Stored
  <2>3. Clean(cookie) /\ row[cookie].revoked
    BY <1>0, <2>1, <2>2, ExcusesGrow DEF Clean
  <2>4. PICK q \in Refreshes : call[q].sent = cookie
    BY <2>3 DEF CookieIsFresh
  <2>5. q \in Refreshes' /\ q # r /\ call'[q].sent = cookie
    BY <2>1, <2>4 DEF Refreshes, Calls
  <2> QED
    BY <2>1, <2>5 DEF OnePresents
<1> QED
  BY <1>0, <1>1, <1>2, CallSteps DEF New

LEMMA RevokesExcusedNext ==
  ASSUME SInv, Fresh, WireIsGood, RevokesExcused, [SessionNext]_allVars
  PROVE  RevokesExcused'
<1> SUFFICES ASSUME NEW q \in Requests, pc'[q] = "revoke"
             PROVE  grant'[q].family \in Excused'
  BY DEF RevokesExcused
<1>0. /\ Types /\ CallsOK /\ Running
      /\ pc \in [Requests -> {"idle", "revoke", "consume", "create"}]
      /\ grant \in [Requests -> Grant \cup {None}]
  BY DEF SInv, Types, Inv, TypeOK
<1>1. CASE Stays(q)
  BY <1>0, <1>1, ExcusesGrow DEF Stays, RevokesExcused
<1>2. ~(Consume(q) /\ UNCHANGED call)
  BY <1>0 DEF Consume, Enter
<1>3. ASSUME NEW u, NEW f, Login(q, u, f)
      PROVE  FALSE
  BY <1>0, <1>3 DEF Login, Enter
<1>4. CASE Enters(q) /\ call[q].kind \in Refreshing /\ RotateLookup(q, call[q].sent)
  <2> DEFINE t == call[q].sent
  <2>1. t \in Stored /\ ~Live(t) /\ grant'[q] = GrantOf(t)
    BY <1>0, <1>4 DEF RotateLookup, Enter
  <2>2. row[t].revoked
    BY <2>1 DEF Live, Fresh
  <2>3. q \in Refreshes /\ call[q].result = "wire"
    BY <1>4 DEF Enters, Fixed, Refreshes
  <2>4. row[t].family \in Excused
    BY <2>1, <2>2, <2>3 DEF WireIsGood, Clean
  <2> QED
    BY <1>0, <2>1, <2>4, ExcusesGrow DEF GrantOf
<1>5. CASE Enters(q) /\ call[q].kind = "logout" /\ LogoutLookup(q, call[q].sent)
  <2> DEFINE t == call[q].sent
  <2>1. t \in Stored /\ grant'[q] = GrantOf(t) /\ q \in Calls
    BY <1>0, <1>5 DEF LogoutLookup, Enter, Enters, Fixed
  <2>2. row[t].family \in history.leaving
    BY <1>0, <1>5, <2>1 DEF CallsOK, CallOK, FamilyOf
  <2> QED
    BY <1>0, <2>1, <2>2, ExcusesGrow DEF GrantOf, Excused
<1> QED
  BY <1>0, <1>1, <1>2, <1>3, <1>4, <1>5, PcSteps

LEMMA ResultsAreNewNext ==
  ASSUME SInv, ResultsAreNew, RevokesExcused, [SessionNext]_allVars
  PROVE  ResultsAreNew'
<1> SUFFICES ASSUME NEW r \in Calls', call'[r].result \in Tokens
             PROVE  /\ call'[r].result # cookie'
                    /\ \A q \in Calls' : call'[q].sent # call'[r].result
                    /\ \A q \in Calls' : call'[q].result = call'[r].result => q = r
                    /\ Clean(call[r].result)' => ~row'[call'[r].result].revoked
  BY DEF ResultsAreNew, NewResult
<1>0. /\ Types /\ CallsOK /\ Running
      /\ pc \in [Requests -> {"idle", "revoke", "consume", "create"}]
      /\ \A q \in Calls' : q \in Requests
      /\ \A q \in Calls : call[q].sent \in Stored \cup {None}
      /\ \A q \in Calls : call[q].result \in Tokens => call[q].result \in Stored
      /\ cookie \in Stored \cup {None} /\ None \notin Tokens
  BY WordsAreNoTokens DEF SInv, Types, Inv, TypeOK, CallsOK, CallOK, Calls
<1>a. \A q \in Calls' : ~Goes(q) => call'[q].sent = cookie /\ call'[q].result = "wire"
  BY <1>0, CallSteps, SendEffect DEF New
<1>b. \A w \in {"wire", "running", "refused", "done", "failed"} : w \notin Tokens
  BY WordsAreNoTokens
<1>c. ASSUME NEW q \in Requests, NEW t \in Tokens, Granted(q, t)
      PROVE  t \notin Stored /\ t # None
  BY <1>0, <1>c, NewToken DEF Granted
<1> DEFINE x == call'[r].result
<1>1. CASE Fixed(r) /\ SameResult(r)
  <2>1. x = call[r].result /\ r \in Calls /\ x \in Stored /\ x \in Tokens
    BY <1>0, <1>1 DEF Fixed, SameResult
  <2>2. /\ x # cookie
        /\ \A q \in Calls : call[q].sent # x
        /\ \A q \in Calls : call[q].result = x => q = r
        /\ Clean(x) => ~row[x].revoked
    BY <2>1 DEF ResultsAreNew, NewResult
  <2> HIDE DEF x
  <2>3. x # cookie'
    <3>1. ASSUME NEW q \in Requests, Deliver(q), call[q].result = x
          PROVE  FALSE
      BY <1>0, <2>2, <3>1, DeliverEffect
    <3> QED
      BY <1>0, <2>1, <2>2, <3>1, CookieSteps
  <2>4. ASSUME NEW q \in Calls'
        PROVE  call'[q].sent # x
    BY <1>a, <2>2, <2>4 DEF Goes, Fixed
  <2>5. ASSUME NEW q \in Calls', call'[q].result = x
        PROVE  q = r
    <3>1. Goes(q) /\ q \in Calls /\ q \in Requests
      BY <1>0, <1>a, <1>b, <2>1, <2>5 DEF Goes, Fixed
    <3>2. x \notin {"wire", "running", "refused", "done", "failed"}
      BY <1>b, <1>0, <2>1 DEF Types, Inv, TypeOK
    <3>3. ~\E t \in Tokens : Granted(q, t)
      BY <1>c, <2>1, <2>5, <3>1 DEF Granted
    <3> QED
      BY <2>2, <2>5, <3>1, <3>2, <3>3 DEF Goes, SameResult, Done
  <2>6. ASSUME Clean(call[r].result)', row'[x].revoked
        PROVE  FALSE
    <3>1. Clean(x)
      BY <1>0, <2>1, <2>6, ExcusesGrow DEF Clean, x
    <3>2. \E q \in Refreshes : call[q].sent = x
      BY <2>1, <2>2, <2>6, <3>1, RevokedBySpending
    <3> QED
      BY <2>2, <3>2 DEF Refreshes
  <2> QED
    BY <2>3, <2>4, <2>5, <2>6 DEF x
<1>2. ASSUME NEW t \in Tokens, Granted(r, t)
      PROVE  /\ x # cookie'
             /\ \A q \in Calls' : call'[q].sent # x
             /\ \A q \in Calls' : call'[q].result = x => q = r
             /\ ~row'[x].revoked
  <2>1. x = t /\ t \notin Stored /\ t # None /\ ~row'[t].revoked /\ r \in Requests
    BY <1>0, <1>2, <1>c, NewToken DEF Granted
  <2> HIDE DEF x
  <2>2. x # cookie'
    <3>1. ASSUME NEW q \in Requests, Deliver(q), call[q].result \in Tokens
          PROVE  call[q].result \in Stored
      BY <1>0, <3>1 DEF Deliver
    <3> QED
      BY <1>0, <2>1, <3>1, CookieSteps
  <2>3. ASSUME NEW q \in Calls'
        PROVE  call'[q].sent # x
    BY <1>0, <1>a, <2>1, <2>3 DEF Goes, Fixed
  <2>4. ASSUME NEW q \in Calls', call'[q].result = x
        PROVE  q = r
    <3>1. Goes(q) /\ q \in Calls /\ q \in Requests
      BY <1>0, <1>a, <1>b, <2>1, <2>4 DEF Goes, Fixed
    <3>2. \E s \in Tokens : Granted(q, s)
      BY <1>0, <1>b, <2>1, <2>4, <3>1 DEF Goes, SameResult, Done
    <3>3. pc[q] = "create" /\ pc'[q] = "idle" /\ End(r)
      BY <1>0, <1>2, <3>1, <3>2 DEF Granted, CreateRefresh, End
    <3> QED
      BY <1>0, <3>1, <3>3 DEF End
  <2> QED
    BY <2>1, <2>2, <2>3, <2>4
<1>3. Goes(r)
  BY <1>a, <1>b
<1>4. ~Done(r) /\ call'[r].result \notin {"running", "refused", "failed"}
  BY <1>b DEF Done
<1> QED
  BY <1>1, <1>2, <1>3, <1>4 DEF Goes

\* What becomes of the refresh that is about to replace the cookie.
LEMMA ReplacerSteps ==
  ASSUME SInv, ResultsAreNew, [SessionNext]_allVars, cookie' = cookie,
         NEW r \in Refreshes, call[r].sent \in Stored,
         pc[r] = "create" \/ call[r].result \in Tokens,
         row[call[r].sent].family \notin history'.lost
  PROVE  /\ r \in Refreshes' /\ call'[r].sent = call[r].sent
         /\ pc'[r] = "create" \/ call'[r].result \in Tokens
<1> DEFINE f == row[call[r].sent].family
<1>0. /\ Types /\ CallsOK /\ Running /\ r \in Calls /\ r \in Requests
      /\ pc \in [Requests -> {"idle", "revoke", "consume", "create"}]
      /\ page \in [Tabs -> Page] /\ history \in History
  BY CallTyped DEF SInv, Types, Inv, TypeOK, Refreshes
<1>1. pc[r] = "create" => call[r].result = "running" /\ grant[r].family = f
  BY <1>0 DEF Running, RunOK, Refreshes, Refreshing
<1>2. call[r].result \in Tokens => /\ call[r].result \in Stored /\ call[r].result # cookie
                                   /\ row[call[r].result].family = f
  BY <1>0 DEF CallsOK, CallOK, ResultsAreNew, NewResult, Refreshes
<1>3. call[r].result \in Tokens => pc[r] = "idle"
  BY <1>0, WordsAreNoTokens DEF Running, RunOK
<1>a. call[r].result # "wire"
  BY <1>1, WordsAreNoTokens
<1>4. ASSUME Fixed(r), SameResult(r), pc'[r] = pc[r]
      PROVE  /\ r \in Refreshes' /\ call'[r].sent = call[r].sent
             /\ pc'[r] = "create" \/ call'[r].result \in Tokens
  BY <1>4 DEF Fixed, SameResult, Refreshes
<1>5. ASSUME call'[r] = call[r], pc'[r] = pc[r]
      PROVE  /\ r \in Refreshes' /\ call'[r].sent = call[r].sent
             /\ pc'[r] = "create" \/ call'[r].result \in Tokens
  <2>1. r \in Calls'
    BY <1>0, <1>5 DEF Calls
  <2> QED
    BY <1>0, <1>4, <1>5, <2>1 DEF Fixed, SameResult
<1>6. ASSUME NEW q \in Requests, q # r, Arrive(q) \/ Handle(q) \/ HandlerFails(q)
      PROVE  call'[r] = call[r] /\ pc'[r] = pc[r]
  <2>1. q \in Calls /\ call[q] \in Call
    BY <1>0, <1>6, CallTyped DEF Arrive, Handle, HandlerFails
  <2>2. pc'[r] = pc[r]
    BY <1>0, <1>6
    DEF Arrive, Handle, HandlerFails, Login, RotateLookup, LogoutLookup, RevokeFamily,
        Consume, CreateRefresh, Fail, Enter, End, vars
  <2>3. \A c : call' = [call EXCEPT ![q] = c] => call'[r] = call[r]
    BY <1>6
  <2>4. \A x : Answer(q, x) => call'[r] = call[r]
    BY <2>3 DEF Answer
  <2> QED
    BY <1>6, <2>2, <2>3, <2>4 DEF Arrive, Handle, HandlerFails
<1>7. ~Arrive(r)
  BY <1>a DEF Arrive
<1>8. ASSUME Handle(r)
      PROVE  /\ r \in Refreshes' /\ call'[r].sent = call[r].sent
             /\ pc'[r] = "create" \/ call'[r].result \in Tokens
  <2>1. pc[r] = "create"
    BY <1>3, <1>8 DEF Handle, Consume, RevokeFamily, CreateRefresh
  <2>2. PICK t \in Tokens : /\ CreateRefresh(r, t) /\ Answer(r, t)
                            /\ LoseIf(call[r].tab = None, grant[r].family)
    BY <1>8, <2>1 DEF Handle, Consume, RevokeFamily
  <2>3. call[r].tab # None
    <3>1. CASE call[r].tab = None
      <4>1. history' = [history EXCEPT !.lost = history.lost \cup {f}]
        BY <1>1, <2>1, <2>2, <3>1 DEF LoseIf
      <4>2. f \in history'.lost
        BY <1>0, <4>1 DEF History
      <4> QED
        BY <4>2
    <3> QED
      BY <3>1
  <2> QED
    BY <1>0, <2>2, <2>3, AnswerEffect DEF Fixed, Refreshes
<1>9. ~HandlerFails(r)
  <2>1. CASE HandlerFails(r)
    <3>1. pc[r] = "create"
      BY <1>3, <2>1 DEF HandlerFails, Fail
    <3>2. history' = [history EXCEPT !.lost = history.lost \cup {f}]
      BY <1>1, <2>1, <3>1 DEF HandlerFails, LoseIf
    <3>3. f \in history'.lost
      BY <1>0, <3>2 DEF History
    <3> QED
      BY <3>3
  <2> QED
    BY <2>1
<1>d. ASSUME Dropped(r), history' = [history EXCEPT !.lost = @ \cup Unheard(call[r].tab)]
      PROVE  Fixed(r) /\ SameResult(r)
  <2>1. CASE Answered(r)
    <3>1. call[r].result \in Tokens
      BY <1>1, <2>1 DEF Answered
    <3>2. f \in FamilyOf(call[r].result)
      BY <1>2, <3>1 DEF FamilyOf
    <3>3. f \in Unheard(call[r].tab)
      BY <1>0, <3>2 DEF Unheard, Of
    <3>4. f \in history'.lost
      BY <1>0, <1>d, <3>3 DEF History
    <3> QED
      BY <3>4
  <2> QED
    BY <1>d, <2>1 DEF Dropped, SameResult
<1>10. ASSUME NEW q \in Requests, Deliver(q)
       PROVE  pc'[r] = pc[r] /\ (call'[r] = call[r] \/ (Fixed(r) /\ SameResult(r)))
  <2>1. q # r
    <3>1. CASE q = r
      <4>1. call[r].result \in Tokens /\ cookie' = CookieAfter(call[r].result)
        BY <1>1, <1>10, <3>1 DEF Deliver, Answered
      <4>2. \A y \in Tokens : CookieAfter(y) = y
        BY WordsAreNoTokens DEF CookieAfter
      <4> QED
        BY <1>2, <4>1, <4>2
    <3> QED
      BY <3>1
  <2> QED
    BY <1>0, <1>10, <1>d, <2>1, DeliverEffect DEF vars
<1>11. ASSUME NEW q \in Requests, Break(q)
       PROVE  pc'[r] = pc[r] /\ (call'[r] = call[r] \/ (Fixed(r) /\ SameResult(r)))
  BY <1>0, <1>11, <1>d, BreakEffect DEF vars, SameResult
<1>12. ASSUME NEW tab \in Tabs, NEW at, Reload(tab, at)
       PROVE  pc'[r] = pc[r] /\ (call'[r] = call[r] \/ (Fixed(r) /\ SameResult(r)))
  <2>1. UNCHANGED vars /\ history' = [history EXCEPT !.lost = @ \cup Unheard(tab)]
    BY <1>12 DEF Reload
  <2>2. r \in Of(tab) => Dropped(r) /\ call[r].tab = tab
    BY <1>12, <1>0, ReloadEffect DEF Of
  <2> QED
    BY <1>0, <1>12, <1>d, <2>1, <2>2, ReloadEffect DEF vars
<1>13. ASSUME NEW q \in Requests, NEW tab \in Tabs, NEW kind, Sends(q, tab, kind)
       PROVE  call'[r] = call[r] /\ pc'[r] = pc[r]
  BY <1>0, <1>13, SendEffect DEF vars
<1>14. UNCHANGED allVars => call'[r] = call[r] /\ pc'[r] = pc[r]
  BY DEF allVars, vars, sessionVars
<1> QED
  BY <1>0, <1>4, <1>5, <1>6, <1>7, <1>8, <1>9, <1>10, <1>11, <1>12, <1>13, <1>14, StepCases

LEMMA CookieIsFreshNext ==
  ASSUME SInv, CookieIsFresh, ResultsAreNew, RevokesExcused, [SessionNext]_allVars
  PROVE  CookieIsFresh'
<1> SUFFICES ASSUME Clean(cookie)', row'[cookie'].revoked
             PROVE  \E r \in Refreshes' : /\ call'[r].sent = cookie'
                                          /\ pc'[r] = "create" \/ call'[r].result \in Tokens
  BY DEF CookieIsFresh
<1>0. Types /\ CallsOK /\ cookie \in Stored \cup {None} /\ cookie' \in Stored'
      /\ None \notin Stored'
  BY RowsStay DEF SInv, Types, Clean
<1>1. cookie' = cookie
  <2>1. ASSUME NEW q \in Requests, Deliver(q), call[q].result \in Tokens,
               cookie' = call[q].result
        PROVE  FALSE
    <3>1. /\ NewResult(q) /\ cookie' \in Stored
      BY <1>0, <2>1 DEF Deliver, ResultsAreNew, CallsOK, CallOK
    <3>2. row' = row
      BY <2>1 DEF Deliver, vars
    <3>3. Clean(cookie')
      BY <1>0, <3>1, ExcusesGrow DEF Clean
    <3> QED
      BY <2>1, <3>1, <3>2, <3>3 DEF NewResult
  <2> QED
    BY <1>0, <2>1, CookieSteps
<1>2. cookie \in Stored /\ Clean(cookie)
  BY <1>0, <1>1, ExcusesGrow DEF Clean
<1>3. CASE row[cookie].revoked
  <2>1. PICK r \in Refreshes : /\ call[r].sent = cookie
                               /\ pc[r] = "create" \/ call[r].result \in Tokens
    BY <1>2, <1>3 DEF CookieIsFresh
  <2>2. row[cookie].family \notin history'.lost
    BY <1>0, <1>1, <1>2, RowsStay DEF Clean, Excused
  <2>3. /\ r \in Refreshes' /\ call'[r].sent = call[r].sent
        /\ pc'[r] = "create" \/ call'[r].result \in Tokens
    BY <1>1, <1>2, <2>1, <2>2, ReplacerSteps
  <2> QED
    BY <1>1, <2>1, <2>3
<1>4. CASE ~row[cookie].revoked
  <2>1. PICK q \in Refreshes : /\ call[q].sent = cookie /\ pc'[q] = "create"
                               /\ UNCHANGED call
    BY <1>1, <1>2, <1>4, RevokedBySpending
  <2>2. q \in Refreshes'
    BY <2>1 DEF Refreshes, Calls
  <2> QED
    BY <1>1, <2>1, <2>2
<1> QED
  BY <1>3, <1>4

LEMMA RotatingNext ==
  ASSUME SInv, OnePerTab, Rotating, [SessionNext]_allVars
  PROVE  Rotating'
<1>1. OnePresents'
  BY OnePresentsNext DEF Rotating
<1> QED
  BY <1>1, FreshNext, CookieIsFreshNext, ResultsAreNewNext, WireIsGoodNext,
     RevokesExcusedNext DEF Rotating

LEMMA CondemnedNext ==
  ASSUME SInv, RevokesExcused, condemned \subseteq Excused, [SessionNext]_allVars
  PROVE  condemned' \subseteq Excused'
<1>0. Types /\ [Next]_vars
  BY RowsStay DEF SInv
<1>1. condemned' \subseteq Excused
  <2>1. ASSUME NEW r \in Requests, RevokeFamily(r)
        PROVE  condemned' \subseteq Excused
    BY <2>1 DEF RevokeFamily, RevokesExcused
  <2> QED
    BY <1>0, <2>1
    DEF Next, Continue, Login, RotateLookup, LogoutLookup, Consume, CreateRefresh, Fail,
        Expire, vars
<1> QED
  BY <1>0, <1>1, ExcusesGrow

\* The inductive invariant of a session.
Rotates == SInv /\ OnePerTab /\ Rotating

LEMMA RotatesAlways == SessionSpec => []Rotates
<1>1. SessionInit => Rotates
  <2> SUFFICES ASSUME SessionInit
               PROVE  Rotates
    OBVIOUS
  <2>1. Calls = {} /\ Stored = {} /\ \A r \in Requests : pc[r] = "idle"
    BY DEF SessionInit, Init, Calls, Stored
  <2> QED
    BY <2>1, SInvInit
    DEF Rotates, OnePerTab, Rotating, Fresh, OnePresents, CookieIsFresh, ResultsAreNew,
        WireIsGood, RevokesExcused, Refreshes, Clean
<1>2. Rotates /\ [SessionNext]_allVars => Rotates'
  BY SInvNext, OnePerTabNext, RotatingNext DEF Rotates
<1> QED
  BY <1>1, <1>2, PTL DEF SessionSpec

\* Reuse detection ends a session only for a reason: a family whose revocation
\* has run was signed out of, or one of its answers was lost, or two tabs
\* presented one token at once (token.service.ts: rotate; api.ts: refreshing).
THEOREM EndsForAReason == SessionSpec => []ThrownOutForAReason
<1>1. SessionInit => ThrownOutForAReason
  BY DEF SessionInit, Init, ThrownOutForAReason
<1>2. Rotates /\ ThrownOutForAReason /\ [SessionNext]_allVars => ThrownOutForAReason'
  BY CondemnedNext DEF Rotates, Rotating, ThrownOutForAReason, Excused
<1> QED
  BY <1>1, <1>2, RotatesAlways, PTL DEF SessionSpec

-----------------------------------------------------------------------------
(* What a sign-out leaves: once it is answered no token of the family is   *)
(* unrevoked, and nobody brings a new one, unless a refresh of the family  *)
(* was under way with it.                                                  *)

\* A family that a login begins is nobody else's until its token is delivered.
NewFamilies ==
  /\ \A r \in Requests : pc[r] = "create" /\ call[r].kind = "login" =>
       InFamily(grant[r].family) = {} /\ Holders(grant[r].family) = {r}
  /\ \A r \in Calls : call[r].result \in Tokens /\ call[r].kind = "login" =>
       /\ InFamily(row[call[r].result].family) = {call[r].result}
       /\ Holders(row[call[r].result].family) = {}

Crossing == \A q \in Calls, r \in Refreshes :
  /\ call[q].kind = "logout" /\ call[q].sent \in Stored /\ call[r].sent \in Stored
  /\ row[call[q].sent].family = row[call[r].sent].family
  => row[call[r].sent].family \in history.crossed

Over(f) == InFamily(f) # {} /\ \A t \in InFamily(f) : row[t].revoked

DoneIsRevoked == \A r \in Calls :
  /\ call[r].kind = "logout" /\ call[r].result = "done" /\ call[r].sent \in Stored
  /\ row[call[r].sent].family \notin history.crossed
  => Over(row[call[r].sent].family)

LeftFor(f) == /\ Over(f) /\ cookie \notin InFamily(f)
              /\ \A r \in Refreshes : call[r].sent \notin InFamily(f)
              /\ \A r \in Calls : call[r].result \notin InFamily(f)
LeftIsOver == \A f \in history.left \ history.crossed : LeftFor(f)

LEMMA FamilySteps ==
  ASSUME SInv, [SessionNext]_allVars, NEW f \in Families
  PROVE  \A t \in InFamily(f)' :
           t \in InFamily(f) \/ \E r \in Holders(f) : t \in Tokens /\ CreateRefresh(r, t)
<1>1. Inv /\ [Next]_vars /\ Stored' \subseteq Tokens
  BY RowsStay DEF SInv, Types
<1>2. \A r \in Creating : grant[r].family = f => r \in Holders(f)
  BY DEF Holders, Creating
<1> QED
  BY <1>1, <1>2, StoredSteps DEF InFamily

LEMMA FamilyStays ==
  ASSUME SInv, [SessionNext]_allVars, NEW f
  PROVE  InFamily(f) \subseteq InFamily(f)'
  BY RowsStay DEF InFamily, SInv

LEMMA LookupIsOfSent ==
  ASSUME SInv, [SessionNext]_allVars, NEW q \in Requests, NEW t \in Tokens,
         RotateLookup(q, t)
  PROVE  q \in Calls /\ call[q].sent = t
<1>0. /\ Types /\ Running /\ pc[q] = "idle" /\ presented'[q] = t
      /\ pc'[q] \in {"consume", "revoke"} /\ None \notin Tokens
      /\ pc \in [Requests -> {"idle", "revoke", "consume", "create"}]
      /\ presented \in [Requests -> Tokens \cup {None}]
  BY WordsAreNoTokens DEF SInv, Types, Inv, TypeOK, RotateLookup, Enter
<1>1. ASSUME NEW u, NEW f, Login(q, u, f)
      PROVE  FALSE
  BY <1>0, <1>1 DEF Login, Enter
<1>2. ASSUME NEW s, RotateLookup(q, s) \/ LogoutLookup(q, s)
      PROVE  presented'[q] = s
  BY <1>0, <1>2 DEF RotateLookup, LogoutLookup, Enter
<1>3. ~Stays(q) /\ ~Consume(q)
  BY <1>0 DEF Stays, Consume
<1>4. Enters(q) /\ (RotateLookup(q, call[q].sent) \/ LogoutLookup(q, call[q].sent))
  BY <1>0, <1>1, <1>3, PcSteps
<1> QED
  BY <1>0, <1>2, <1>4 DEF Enters, Fixed

LEMMA HolderEnters ==
  ASSUME SInv, [SessionNext]_allVars, NEW f \in Families
  PROVE  \A q \in Holders(f)' :
           \/ q \in Holders(f)
           \/ \E u \in Users : Login(q, u, f)
           \/ q \in Calls /\ call[q].sent \in InFamily(f)
<1>1. Inv /\ [Next]_vars /\ Stored \subseteq Tokens
  BY RowsStay DEF SInv, Types, Inv, TypeOK
<1>2. \A q \in Holders(f)' : q \in Requests
  BY DEF Holders, Consuming, Creating
<1>3. InFamily(f) \subseteq Tokens
  BY <1>1 DEF InFamily
<1> QED
  BY <1>1, <1>2, <1>3, HolderSteps, LookupIsOfSent

LEMMA NewFamiliesNext ==
  ASSUME SInv, ResultsAreNew, NewFamilies, [SessionNext]_allVars
  PROVE  NewFamilies'
<1>0. /\ Types /\ CallsOK /\ Running /\ Inv' /\ [Next]_vars
      /\ pc \in [Requests -> {"idle", "revoke", "consume", "create"}]
      /\ grant \in [Requests -> Grant \cup {None}]
  BY RowsStay DEF SInv, Types, Inv, TypeOK
<1>1. ASSUME NEW r \in Requests, pc'[r] = "create", call'[r].kind = "login"
      PROVE  InFamily(grant[r].family)' = {} /\ Holders(grant[r].family)' = {r}
  <2>1. grant'[r].family \in Families
    BY <1>0, <1>1 DEF Inv, Carried, Grant
  <2>2. PICK f \in Families : f = grant'[r].family
    BY <2>1
  <2>3. r \in Holders(f)'
    BY <1>1, <2>2 DEF Holders, Consuming, Creating
  <2> SUFFICES InFamily(f)' = {} /\ Holders(f)' = {r}
    BY <2>2 DEF InFamily, Holders
  <2>4. CASE Stays(r)
    <3>1. InFamily(f) = {} /\ Holders(f) = {r}
      BY <1>1, <2>2, <2>4 DEF Stays, Fixed, NewFamilies
    <3>2. \A t \in Tokens : ~CreateRefresh(r, t)
      BY <1>0, <1>1 DEF CreateRefresh, End
    <3>3. InFamily(f)' = {}
      BY <3>1, <3>2, FamilySteps
    <3>4. Holders(f)' \subseteq {r}
      BY <3>1, HolderEnters DEF Login
    <3> QED
      BY <2>3, <3>3, <3>4
  <2>5. ~(Consume(r) /\ UNCHANGED call)
    BY <1>1, ConsumerIsRefresh DEF Refreshes, Refreshing
  <2>6. ASSUME NEW u \in Users, NEW g \in Families, Login(r, u, g)
        PROVE  InFamily(f)' = {} /\ Holders(f)' = {r}
    <3>1. f = g /\ InFamily(f) = {} /\ Holders(f) = {} /\ row' = row
      BY <1>0, <2>2, <2>6 DEF Login, Enter
    <3>2. InFamily(f)' = {}
      BY <3>1 DEF InFamily, Stored
    <3>3. ASSUME NEW q \in Holders(f)', q # r
          PROVE  FALSE
      <4>1. q \in Requests /\ pc'[q] = pc[q] /\ pc'[q] # "idle"
        BY <1>0, <2>6, <3>3 DEF Login, Enter, Holders, Consuming, Creating
      <4>2. \E v \in Users : Login(q, v, f)
        BY <3>1, HolderEnters
      <4> QED
        BY <4>1, <4>2 DEF Login
    <3> QED
      BY <2>3, <3>2, <3>3
  <2>7. ~(Enters(r) /\ (call[r].kind \in Refreshing \/ call[r].kind = "logout"))
    BY <1>1 DEF Enters, Fixed, Refreshing
  <2> QED
    BY <1>0, <1>1, <2>4, <2>5, <2>6, <2>7, PcSteps
<1>2. ASSUME NEW r \in Calls', call'[r].result \in Tokens, call'[r].kind = "login"
      PROVE  /\ InFamily(row[call[r].result].family)' = {call'[r].result}
             /\ Holders(row[call[r].result].family)' = {}
  <2>b. PICK x \in Tokens : x = call'[r].result
    BY <1>2
  <2>c. x \in Stored'
    <3>1. CallsOK'
      BY SInvNext DEF SInv
    <3> QED
      BY <2>b, <3>1 DEF CallsOK, CallOK
  <2>d. row'[x].family \in Families
    BY <1>0, <2>c DEF Inv, TypeOK, Row
  <2>0. PICK f \in Families : f = row'[x].family
    BY <2>d
  <2>a. x \in InFamily(f)'
    BY <2>0, <2>c DEF InFamily
  <2> SUFFICES InFamily(f)' = {x} /\ Holders(f)' = {}
    BY <2>b, <2>0 DEF InFamily, Holders
  <2>1. CASE Fixed(r) /\ SameResult(r)
    <3>1. r \in Calls /\ call[r].result = x /\ x \in Stored /\ call[r].kind = "login"
      BY <1>0, <1>2, <2>b, <2>1 DEF Fixed, SameResult, CallsOK, CallOK
    <3>2. f = row[x].family
      BY <1>0, <2>0, <3>1, RowsStay
    <3>3. InFamily(f) = {x} /\ Holders(f) = {}
      BY <2>b, <3>1, <3>2 DEF NewFamilies
    <3>4. InFamily(f)' \subseteq {x}
      BY <2>0, <3>3, FamilySteps
    <3>5. \A q \in Calls : call[q].sent # x
      BY <2>b, <3>1 DEF ResultsAreNew, NewResult
    <3>6. Holders(f)' = {}
      BY <2>0, <3>3, <3>5, HolderEnters DEF Login
    <3> QED
      BY <2>a, <3>4, <3>6
  <2>2. CASE Granted(r, x)
    <3>1. r \in Requests
      BY DEF Calls
    <3>2. /\ Stored' = Stored \cup {x} /\ f = grant[r].family /\ pc[r] = "create"
          /\ call[r].kind = "login" /\ pc'[r] = "idle"
      <4>1. CreateRefresh(r, x) /\ call[r].sent \in Stored \cup {None} /\ Fixed(r)
        <5>1. CreateRefresh(r, x)
          BY <2>2 DEF Granted
        <5>2. r \in Calls
          BY <1>0, <2>b, <3>1, <5>1, NewToken
        <5>3. ASSUME NEW tab \in Tabs, NEW kind, Sends(r, tab, kind)
              PROVE  FALSE
          BY <1>0, <3>1, <5>2, <5>3, SendEffect
        <5>4. Goes(r)
          BY <1>0, <1>2, <5>3, CallSteps DEF New
        <5> QED
          BY <1>0, <5>1, <5>2, <5>4 DEF Goes, CallsOK, CallOK
      <4>2. call[r].kind = "login"
        BY <1>2, <4>1 DEF Fixed
      <4>3. /\ Stored' = Stored \cup {x} /\ row'[x].family = grant[r].family
            /\ pc[r] = "create"
        BY <1>0, <3>1, <4>1, NewToken
      <4>4. pc'[r] = "idle"
        BY <1>0, <3>1, <4>1 DEF CreateRefresh, End, Inv, TypeOK
      <4> QED
        BY <2>0, <4>2, <4>3, <4>4
    <3>3. InFamily(f) = {} /\ Holders(f) = {r}
      BY <3>1, <3>2 DEF NewFamilies
    <3>4. InFamily(f)' \subseteq {x}
      BY <1>0, <3>2, <3>3, RowsStay DEF InFamily
    <3>5. r \notin Holders(f)'
      BY <3>2 DEF Holders, Consuming, Creating
    <3>6. Holders(f)' = {}
      BY <2>0, <3>3, <3>5, HolderEnters DEF Login
    <3> QED
      BY <2>a, <3>4, <3>6
  <2>3. /\ \A w \in {"wire", "running", "refused", "done", "failed"} : w # x
    BY <2>b, WordsAreNoTokens
  <2>4. Goes(r)
    <3>1. ASSUME NEW tab \in Tabs, NEW kind, Sends(r, tab, kind)
          PROVE  FALSE
      <4>1. r \in Requests
        BY DEF Calls
      <4>2. call'[r].result = "wire"
        BY <1>0, <3>1, <4>1, SendEffect
      <4> QED
        BY <2>b, <2>3, <4>2
    <3> QED
      BY <1>0, <3>1, CallSteps DEF New
  <2>5. \A t \in Tokens : Granted(r, t) => t = x
    BY <2>b DEF Granted
  <2> QED
    BY <2>1, <2>2, <2>3, <2>4, <2>5, <2>b DEF Goes, Done
<1> QED
  BY <1>1, <1>2 DEF NewFamilies

LEMMA CrossingNext ==
  ASSUME SInv, Crossing, [SessionNext]_allVars
  PROVE  Crossing'
<1>0. /\ Types /\ CallsOK /\ \A q \in Calls' : q \in Requests
      /\ history.crossed \subseteq history'.crossed
      /\ \A q \in Calls : call[q].sent \in Stored \cup {None}
      /\ None \notin Stored'
  BY HistorySteps, RowsStay DEF SInv, Calls, CallsOK, CallOK, Grows
<1>1. ASSUME NEW q \in Calls', NEW r \in Refreshes', q \in Calls, r \in Refreshes,
             call'[q].kind = call[q].kind, call'[q].sent = call[q].sent,
             call'[r].sent = call[r].sent,
             call'[q].kind = "logout", call'[q].sent \in Stored', call'[r].sent \in Stored',
             row'[call'[q].sent].family = row'[call'[r].sent].family
      PROVE  row'[call'[r].sent].family \in history'.crossed
  <2>1. call[q].sent \in Stored /\ call[r].sent \in Stored
    BY <1>0, <1>1 DEF Refreshes
  <2>2. row[call[q].sent].family = row[call[r].sent].family
    BY <1>0, <1>1, <2>1, RowsStay
  <2>3. row[call[r].sent].family \in history.crossed
    BY <1>1, <2>1, <2>2 DEF Crossing
  <2> QED
    BY <1>0, <1>1, <2>1, <2>3, RowsStay
<1>2. ASSUME \A q \in Calls' : Goes(q)
      PROVE  Crossing'
  <2>1. \A q \in Calls' : /\ q \in Calls /\ call'[q].kind = call[q].kind
                          /\ call'[q].sent = call[q].sent
    BY <1>2 DEF Goes, Fixed
  <2>2. \A r \in Refreshes' : r \in Refreshes /\ r \in Calls'
    BY <2>1 DEF Refreshes
  <2> QED
    BY <1>1, <2>1, <2>2 DEF Crossing
<1>3. ASSUME NEW s \in Requests, NEW tab \in Tabs, NEW kind, Sends(s, tab, kind),
             \A q \in Calls' \ {s} : Fixed(q) /\ call'[q] = call[q]
      PROVE  Crossing'
  <2>1. /\ call'[s].kind = kind /\ call'[s].sent = cookie
        /\ row' = row /\ Stored' = Stored
    BY <1>0, <1>3, SendEffect DEF vars, Stored
  <2>2. ASSUME NEW q \in Calls' \ {s}, (call'[q].kind = "logout") # (kind = "logout"),
               kind # "login", call'[q].kind # "login",
               call'[q].sent \in Stored, cookie \in Stored,
               row[call'[q].sent].family = row[cookie].family
        PROVE  row[cookie].family \in history'.crossed
    <3>1. q \in Calls /\ call'[q] = call[q]
      BY <1>3 DEF Fixed
    <3>2. q \in UnderWay(FamilyOf(cookie))
      BY <2>2, <3>1 DEF UnderWay, FamilyOf
    <3>3. FamilyOf(cookie) \subseteq history'.crossed
      BY <1>0, <1>3, <2>2, <3>1, <3>2, SendNotes
    <3> QED
      BY <2>2, <3>3 DEF FamilyOf
  <2>3. ASSUME NEW q \in Calls', NEW r \in Refreshes',
               call'[q].kind = "logout", call'[q].sent \in Stored', call'[r].sent \in Stored',
               row'[call'[q].sent].family = row'[call'[r].sent].family
        PROVE  row'[call'[r].sent].family \in history'.crossed
    <3>1. r \in Calls' /\ call'[r].kind \in {"restore", "refresh", "again"}
      BY DEF Refreshes, Refreshing
    <3>2. CASE q # s /\ r # s
      <4>1. q \in Calls /\ call'[q] = call[q] /\ r \in Refreshes /\ call'[r] = call[r]
        BY <1>3, <3>1, <3>2 DEF Fixed, Refreshes, Refreshing
      <4> QED
        BY <1>1, <2>3, <4>1
    <3>3. CASE q = s /\ r # s
      BY <2>1, <2>2, <2>3, <3>1, <3>3
    <3>4. CASE q # s /\ r = s
      BY <2>1, <2>2, <2>3, <3>1, <3>4
    <3>5. q # r
      BY <2>3, <3>1
    <3> QED
      BY <3>2, <3>3, <3>4, <3>5
  <2> QED
    BY <2>3 DEF Crossing
<1> QED
  BY <1>0, <1>2, <1>3, SendOrGo

\* Nobody mints for a family that is over and that no refresh presents.
LEMMA OverStays ==
  ASSUME SInv, NewFamilies, [SessionNext]_allVars, NEW f \in Families, Over(f),
         \A r \in Refreshes : call[r].sent \notin InFamily(f)
  PROVE  Over(f)' /\ InFamily(f)' = InFamily(f)
<1>1. ASSUME NEW r \in Holders(f), NEW t \in Tokens, CreateRefresh(r, t)
      PROVE  FALSE
  <2>1. r \in Requests /\ grant[r].family = f /\ pc[r] = "create"
    BY <1>1 DEF Holders, Consuming, Creating, CreateRefresh
  <2>2. /\ r \in Calls
        /\ call[r].kind = "login" \/ call[r].kind \in Refreshing
        /\ call[r].kind # "login" =>
              call[r].sent \in Stored /\ row[call[r].sent].family = grant[r].family
    BY <1>1, <2>1, NewToken DEF SInv
  <2>3. CASE call[r].kind = "login"
    BY <2>1, <2>3 DEF NewFamilies, Over
  <2>4. CASE call[r].kind # "login"
    BY <2>1, <2>2, <2>4 DEF Refreshes, InFamily
  <2> QED
    BY <2>3, <2>4
<1>2. InFamily(f)' = InFamily(f)
  BY <1>1, FamilySteps, FamilyStays
<1>3. \A t \in InFamily(f) : row'[t].revoked
  BY RowsStay DEF Over, InFamily, SInv
<1> QED
  BY <1>2, <1>3 DEF Over

LEMMA DoneIsRevokedNext ==
  ASSUME SInv, NewFamilies, Crossing, DoneIsRevoked, [SessionNext]_allVars
  PROVE  DoneIsRevoked'
<1> SUFFICES ASSUME NEW r \in Calls', call'[r].kind = "logout", call'[r].result = "done",
                    call'[r].sent \in Stored',
                    row'[call'[r].sent].family \notin history'.crossed
             PROVE  Over(row[call[r].sent].family)'
  BY DEF DoneIsRevoked
<1>0. /\ Types /\ CallsOK /\ Running /\ r \in Requests
      /\ history.crossed \subseteq history'.crossed /\ None \notin Stored'
      /\ \A w \in {"wire", "running", "refused", "done", "failed"} : w \notin Tokens
      /\ \A t \in Stored : row[t] \in Row
  BY HistorySteps, RowsStay, WordsAreNoTokens DEF SInv, Calls, Grows, Types, Inv, TypeOK
<1>1. /\ Goes(r) /\ Fixed(r) /\ r \in Calls /\ call[r].kind = "logout"
      /\ call'[r].sent = call[r].sent
  <2>1. ASSUME NEW tab \in Tabs, NEW kind, Sends(r, tab, kind)
        PROVE  FALSE
    <3>1. call'[r].result = "wire"
      BY <1>0, <2>1, SendEffect
    <3> QED
      BY <3>1
  <2>2. Goes(r)
    BY <1>0, <2>1, CallSteps DEF New
  <2> QED
    BY <2>2 DEF Goes, Fixed
<1>2. PICK t \in Stored : t = call[r].sent
  BY <1>0, <1>1 DEF CallsOK, CallOK
<1>3. PICK f \in Families : f = row[t].family
  BY <1>0 DEF Row
<1>4. /\ call'[r].sent = t /\ t \in Stored' /\ row'[t].family = f
      /\ t \in InFamily(f) /\ t \in InFamily(f)' /\ f \notin history.crossed
  BY <1>0, <1>1, <1>2, <1>3, RowsStay DEF InFamily
<1> SUFFICES Over(f)'
  BY <1>4 DEF Over, InFamily
<1>5. CASE SameResult(r)
  <2>1. Over(f)
    BY <1>0, <1>1, <1>2, <1>3, <1>4, <1>5 DEF SameResult, DoneIsRevoked
  <2>2. \A q \in Refreshes : call[q].sent \notin InFamily(f)
    BY <1>1, <1>2, <1>3, <1>4 DEF Crossing, InFamily
  <2> QED
    BY <2>1, <2>2, OverStays
<1>6. CASE Done(r)
  <2>1. RevokeFamily(r)
    BY <1>0, <1>2, <1>6, RowsStay DEF Done
  <2>2. grant[r].family = f
    BY <1>0, <1>1, <1>2, <1>3, <2>1 DEF Running, RunOK, RevokeFamily
  <2>3. /\ Stored' = Stored
        /\ \A s \in Stored : row'[s] = IF row[s].family = f
                                         THEN [row[s] EXCEPT !.revoked = TRUE] ELSE row[s]
    BY <1>0, <2>1, <2>2, TableAfterRevokeFamily DEF Types, Inv
  <2>4. ASSUME NEW s \in InFamily(f)'
        PROVE  row'[s].revoked
    <3>1. s \in Stored /\ row'[s].family = f
      BY <2>3 DEF InFamily
    <3>2. row[s] \in Row /\ row[s].family = f
      BY <1>0, <3>1, RowsStay
    <3> QED
      BY <2>3, <3>1, <3>2 DEF Row
  <2> QED
    BY <1>4, <2>4 DEF Over
<1>7. ~\E s \in Tokens : Granted(r, s)
  BY <1>0 DEF Granted
<1> QED
  BY <1>1, <1>5, <1>6, <1>7 DEF Goes

LEMMA LeftSteps ==
  ASSUME Types, [SessionNext]_allVars
  PROVE  \A f \in history'.left :
           \/ f \in history.left
           \/ \E r \in Requests : /\ Deliver(r) /\ call[r].kind = "logout"
                                  /\ call[r].result = "done" /\ f \in FamilyOf(call[r].sent)
<1>0. history \in History /\ page \in [Tabs -> Page] /\ \A t : FamilyOf(t) \subseteq Families
  BY FamilyOfTyped DEF Types
<1>1. ASSUME NEW S \in SUBSET Families, history' = [history EXCEPT !.lost = @ \cup S]
      PROVE  history'.left = history.left
  BY <1>0, <1>1, HistoryFields
<1>2. ASSUME NEW r \in Requests, Handle(r) \/ HandlerFails(r)
      PROVE  history'.left = history.left
  BY <1>0, <1>2 DEF Handle, HandlerFails, LoseIf, History
<1>3. ASSUME NEW tab \in Tabs, NEW at, Reload(tab, at)
      PROVE  history'.left = history.left
  BY <1>0, <1>3 DEF Reload, History
<1>4. ASSUME NEW r \in Requests, NEW tab \in Tabs, NEW kind, Sends(r, tab, kind)
      PROVE  history'.left = history.left
  BY <1>4, SendNotes
<1>5. ASSUME NEW r \in Requests, Deliver(r), NEW f \in history'.left, f \notin history.left
      PROVE  /\ call[r].kind = "logout"
             /\ call[r].result = "done" /\ f \in FamilyOf(call[r].sent)
  <2>1. PICK A \in SUBSET Families, B \in SUBSET Families :
           /\ history' = [history EXCEPT !.left = @ \cup A, !.lost = @ \cup B]
           /\ A # {} => /\ call[r].kind = "logout" /\ call[r].result = "done"
                        /\ A = FamilyOf(call[r].sent)
    BY <1>5, HistoryAtDelivery
  <2>2. history'.left = history.left \cup A
    BY <1>0, <2>1, HistoryAtEnd
  <2> QED
    BY <1>5, <2>1, <2>2
<1>6. ASSUME NEW r \in Requests, Arrive(r) \/ Break(r)
      PROVE  history'.left = history.left
  <2>1. CASE Arrive(r)
    BY <2>1 DEF Arrive
  <2>2. CASE Break(r)
    BY <1>1, <2>2, BreakHistory
  <2> QED
    BY <1>6, <2>1, <2>2
<1>7. UNCHANGED allVars => history' = history
  BY DEF allVars, sessionVars
<1> QED
  BY <1>0, <1>2, <1>3, <1>4, <1>5, <1>6, <1>7, StepCases

LEMMA LeftIsOverNext ==
  ASSUME SInv, NewFamilies, ResultsAreNew, Crossing, DoneIsRevoked, LeftIsOver,
         [SessionNext]_allVars
  PROVE  LeftIsOver'
<1> SUFFICES ASSUME NEW f \in history'.left, f \notin history'.crossed
             PROVE  LeftFor(f)'
  BY DEF LeftIsOver
<1>0. /\ Types /\ CallsOK /\ f \in Families /\ f \notin history.crossed
      /\ None \notin Stored /\ Stored \subseteq Tokens
      /\ \A w \in {"wire", "running", "refused", "done", "failed"} : w \notin Stored
      /\ history' \in History
  <2>1. history' \in History /\ history.crossed \subseteq history'.crossed
    BY HistorySteps DEF SInv, Grows
  <2> QED
    BY <2>1, RowsStay, WordsAreNoTokens DEF SInv, History, Types, Inv, TypeOK
<1>1. CASE f \in history.left
  <2>1. LeftFor(f)
    BY <1>0, <1>1 DEF LeftIsOver
  <2>2. Over(f)' /\ InFamily(f)' = InFamily(f)
    BY <1>0, <2>1, OverStays DEF LeftFor
  <2>3. cookie' \notin InFamily(f)
    BY <1>0, <2>1, CookieSteps DEF LeftFor, InFamily, Deliver
  <2>4. ASSUME NEW r \in Calls'
        PROVE  /\ call'[r].kind \in Refreshing => call'[r].sent \notin InFamily(f)
               /\ call'[r].result \notin InFamily(f)
    <3>1. r \in Requests
      BY DEF Calls
    <3>2. ASSUME NEW tab \in Tabs, NEW kind, Sends(r, tab, kind)
          PROVE  call'[r].sent \notin InFamily(f) /\ call'[r].result \notin InFamily(f)
      BY <1>0, <2>1, <3>1, <3>2, SendEffect DEF LeftFor, InFamily
    <3>3. CASE Goes(r)
      <4>1. r \in Calls /\ (call'[r].kind \in Refreshing => call'[r].sent \notin InFamily(f))
        BY <2>1, <3>3 DEF Goes, Fixed, LeftFor, Refreshes
      <4>2. ASSUME NEW t \in Tokens, Granted(r, t)
            PROVE  call'[r].result \notin InFamily(f)
        BY <1>0, <3>1, <4>2, NewToken DEF Granted, InFamily, SInv
      <4>3. SameResult(r) => call'[r].result \notin InFamily(f)
        BY <2>1, <4>1 DEF SameResult, LeftFor
      <4>4. \A w \in {"wire", "running", "refused", "done", "failed"} : w \notin InFamily(f)
        BY <1>0 DEF InFamily
      <4> QED
        BY <3>3, <4>1, <4>2, <4>3, <4>4 DEF Goes, Done
    <3> QED
      BY <1>0, <3>2, <3>3, CallSteps DEF New
  <2> QED
    BY <2>2, <2>3, <2>4 DEF LeftFor, Refreshes
<1>2. CASE f \notin history.left
  <2>1. PICK r \in Requests : /\ Deliver(r) /\ call[r].kind = "logout"
                              /\ call[r].result = "done" /\ f \in FamilyOf(call[r].sent)
    BY <1>0, <1>2, LeftSteps
  <2>2. /\ r \in Calls /\ call[r].sent \in Stored /\ row[call[r].sent].family = f
        /\ call[r].sent \in InFamily(f)
        /\ UNCHANGED vars /\ cookie' = CookieAfter("done")
    BY <2>1 DEF Deliver, FamilyOf, InFamily
  <2>3. Over(f)
    BY <1>0, <2>1, <2>2 DEF DoneIsRevoked
  <2>4. \A q \in Refreshes : call[q].sent \notin InFamily(f)
    BY <1>0, <2>1, <2>2 DEF Crossing, InFamily
  <2>5. ASSUME NEW q \in Calls, call[q].result \in InFamily(f)
        PROVE  FALSE
    <3> DEFINE x == call[q].result
    <3>1. x \in Tokens /\ x \in Stored /\ row[x].family = f
      BY <1>0, <2>5 DEF InFamily
    <3>2. /\ call[q].kind # "logout" /\ NewResult(q)
          /\ call[q].kind \in {"restore", "refresh", "again", "login", "logout"}
          /\ call[q].kind \in Refreshing =>
               call[q].sent \in Stored /\ row[call[q].sent].family = f
      BY <1>0, <3>1, CallTyped, CallFields DEF CallsOK, CallOK, ResultsAreNew
    <3>3. CASE call[q].kind \in Refreshing
      BY <2>4, <3>2, <3>3 DEF Refreshes, InFamily
    <3>4. CASE call[q].kind = "login"
      <4>1. InFamily(f) = {x}
        BY <3>1, <3>4 DEF NewFamilies
      <4>2. call[r].sent = x
        BY <2>2, <4>1
      <4> QED
        BY <2>2, <3>1, <3>2, <4>2 DEF NewResult
    <3> QED
      BY <3>2, <3>3, <3>4 DEF Refreshing
  <2>6. row' = row /\ InFamily(f)' = InFamily(f)
    BY <2>2 DEF vars, InFamily, Stored
  <2>7. \A q \in Calls' : q \in Calls /\ call'[q] = call[q]
    BY <1>0, <2>1, DeliverEffect DEF Calls
  <2>8. cookie' = None
    <3>1. CookieAfter("done") = None
      BY WordsAreNoTokens DEF CookieAfter
    <3> QED
      BY <2>2, <3>1
  <2> QED
    BY <1>0, <2>3, <2>4, <2>5, <2>6, <2>7, <2>8 DEF LeftFor, Over, Refreshes, InFamily
<1> QED
  BY <1>1, <1>2

SigningOut == NewFamilies /\ Crossing /\ DoneIsRevoked /\ LeftIsOver

\* After a sign-out that was answered the session is over for the browser: the
\* cookie is not of its family and every token of it is revoked, unless a
\* refresh of the family was under way with the sign-out
\* (token.service.ts: revoke; auth.controller.ts: logout).
THEOREM SignOutEndsTheSession == SessionSpec => []SignedOutIsOver
<1>1. SessionInit => SigningOut
  <2> SUFFICES ASSUME SessionInit
               PROVE  SigningOut
    OBVIOUS
  <2>1. Calls = {} /\ (\A r \in Requests : pc[r] = "idle") /\ history.left = {}
    BY DEF SessionInit, Init, Calls
  <2> QED
    BY <2>1 DEF SigningOut, NewFamilies, Crossing, DoneIsRevoked, LeftIsOver
<1>2. Rotates /\ SigningOut /\ [SessionNext]_allVars => SigningOut'
  BY NewFamiliesNext, CrossingNext, DoneIsRevokedNext, LeftIsOverNext
  DEF Rotates, Rotating, SigningOut
<1>3. SigningOut => SignedOutIsOver
  BY DEF SigningOut, LeftIsOver, LeftFor, Over, SignedOutIsOver
<1> QED
  BY <1>1, <1>2, <1>3, RotatesAlways, PTL DEF SessionSpec

=============================================================================
