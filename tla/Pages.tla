------------------------------- MODULE Pages -------------------------------
(***************************************************************************)
(* The query cache behind the pages of one browser tab: which component    *)
(* asks for what, which mutation changes what, and what it invalidates.    *)
(*                                                                         *)
(* Entries of the cache do not touch each other, so a behaviour follows    *)
(* one of them, `query`, through pages, mutations and accounts.  What it   *)
(* misses is the tab's own changes; changes by others are not followed.    *)
(* The list of issues is patched by events as well: see BoardCache.  A     *)
(* second workspace and a second board are the page "elsewhere".           *)
(***************************************************************************)
EXTENDS Naturals

CONSTANTS Accounts,  \* who signs in on this tab
          NoAccount, \* nobody
          MaxDeeds   \* bound on mutations, signing in, lost answers and failed queries

ASSUME PagesAssumption ==
  NoAccount \notin Accounts /\ Accounts # {} /\ MaxDeeds \in Nat

VARIABLES query,      \* the key of the entry that is followed
          page,       \* the components that are mounted
          account,    \* whose access token the tab has
          entry,      \* what is cached under the key
          ask,        \* the query in flight for it
          mutation,   \* the mutation in flight
          deeds,
          crossed,    \* history: changes that were stored after their page was left
          unanswered  \* history: changes whose answer was lost

pagesVars == <<query, page, account, entry, ask, mutation, deeds, crossed, unanswered>>

Deed == deeds < MaxDeeds /\ deeds' = deeds + 1

-----------------------------------------------------------------------------
(* What the components ask for and offer *)

\* A component, with those it mounts.
With(asks, offers, children) ==
  [asks   |-> asks \cup UNION {c.asks : c \in children},
   offers |-> offers \cup UNION {c.offers : c \in children}]

CreateOrgDialog     == With({}, {"CreateOrg"}, {})
CreateProjectDialog == With({}, {"CreateProject"}, {})
NotificationsMenu   == With({"notifications"}, {"MarkRead", "MarkAllRead"}, {})
SidebarContent      == With({"me", "orgs", "notifications"}, {},
                            {NotificationsMenu, CreateOrgDialog})
AppShell            == With({"projects"}, {}, {CreateProjectDialog})

LabelPicker         == With({"labels"}, {"CreateLabel"}, {})
NewIssueModal       == With({}, {"CreateIssue"}, {LabelPicker})
AttachmentsSection  == With({"attachments"}, {"UploadAttachment", "DeleteAttachment"}, {})
ActivitySection     == With({"activity"}, {"CreateComment"}, {})
IssueDetailModal    == With({}, {"UpdateIssue", "DeleteIssue"},
                            {LabelPicker, AttachmentsSection, ActivitySection})
Board               == With({"issues", "members", "labels"}, {"MoveIssue"}, {})

DashboardStatCards  == With({"stats"}, {}, {})
BoardPreview        == With({"projects", "issues", "members"}, {}, {})
ActivityFeed        == With({"feed"}, {}, {})
TasksPanel          == With({"mywork"}, {}, {})
TeamPanel           == With({"members"}, {}, {})
CalendarWidget      == With({"calendar"}, {}, {})
OrgHomePage         == With({"me", "projects", "members"}, {},
                            {DashboardStatCards, BoardPreview, ActivityFeed, TasksPanel,
                             TeamPanel, CalendarWidget})

InboxPage           == With({"notifications"}, {"MarkRead", "MarkAllRead"}, {})
MyWorkPage          == With({"mywork"}, {}, {})
ProjectsPage        == With({"projects"}, {}, {})
SearchView          == With({"search"}, {}, {})
MembersPanel        == With({"members", "me", "invites"},
                            {"InviteMember", "UpdateMemberRole", "RemoveMember"}, {})
NotificationPrefsPanel == With({"prefs"}, {"UpdatePrefs"}, {})
OrgSettingsPage     == With({}, {}, {MembersPanel, NotificationPrefsPanel})

AppBar              == With({"me"}, {}, {NotificationsMenu})
HomePage            == With({"orgs"}, {}, {})
AcceptInvitePage    == With({}, {"AcceptInvite"}, {})

Component ==
  [rail |-> SidebarContent, workspace |-> AppShell, dashboard |-> OrgHomePage, board |-> Board,
   card |-> IssueDetailModal, new |-> NewIssueModal, inbox |-> InboxPage, mywork |-> MyWorkPage,
   projects |-> ProjectsPage, search |-> SearchView, settings |-> OrgSettingsPage,
   home |-> HomePage, bar |-> With({}, {}, {AppBar, CreateOrgDialog}),
   accept |-> AcceptInvitePage, login |-> With({}, {}, {})]

Asks(c) == Component[c].asks

\* Pages of the workspace, with the modal that is open on them.
Inside == {{"dashboard"}, {"dashboard", "new"}, {"board"}, {"board", "new"}, {"board", "card"},
           {"inbox"}, {"mywork"}, {"projects"}, {"search"}, {"settings"}}
PageSet == {{"rail", "workspace"} \cup p : p \in Inside} \cup
           {{"rail"}, {"home"}, {"home", "bar"}, {"accept"}, {"login"}}

AsksOf(p) == UNION {Asks(c) : c \in p}
OffersOf(p) == (UNION {Component[c].offers : c \in p}) \
                 IF p \cap {"card", "new"} # {} THEN {"MoveIssue"} ELSE {}
Keys == UNION {AsksOf(p) : p \in PageSet}
Mutable == UNION {OffersOf(p) : p \in PageSet}

-----------------------------------------------------------------------------
(* What a mutation writes and what a query reads.  "belonging" is who the   *)
(* members are, "membership" that and their roles, "own" those of the       *)
(* account; "count" is which issues there are, "history" their audit rows,   *)
(* "timeline" those of the open one, "comment" and "file" what it has.      *)

OrgWrites ==
  {"CreateOrg"} \X {"own", "organization"}
MemberWrites ==
  ({"InviteMember"} \X {"own", "membership", "belonging", "invite"}) \cup  \* own: see Members
  ({"UpdateMemberRole"} \X {"membership"}) \cup
  ({"RemoveMember"} \X {"membership", "belonging"}) \cup
  ({"AcceptInvite"} \X {"own", "membership", "belonging", "invite"})
ProjectWrites == {<<"CreateProject", "project">>}
LabelWrites == {<<"CreateLabel", "label">>}
IssueWrites ==
  ({"CreateIssue", "DeleteIssue"} \X {"issue", "count", "history"}) \cup
  ({"MoveIssue", "UpdateIssue"} \X {"issue", "timeline", "history"})
FileWrites == {"UploadAttachment", "DeleteAttachment"} \X {"file"}
CommentWrites == {<<"CreateComment", "comment">>}
InboxWrites == ({"MarkRead", "MarkAllRead"} \X {"inbox"}) \cup {<<"UpdatePrefs", "prefs">>}
Writes == OrgWrites \cup MemberWrites \cup ProjectWrites \cup LabelWrites \cup IssueWrites
            \cup FileWrites \cup CommentWrites \cup InboxWrites

MeReads == {"me"} \X {"own", "organization"}
OrgReads == {"orgs"} \X {"own", "organization", "project", "belonging"}
SearchReads == {"search"} \X {"issue", "project"}
MyWorkReads == {<<"mywork", "issue">>}
MemberReads == {<<"members", "membership">>}
InviteReads == {<<"invites", "invite">>}
ProjectReads == {"projects"} \X {"project", "count"}
LabelReads == {<<"labels", "label">>}
IssueReads == {<<"issues", "issue">>}
FileReads == {<<"attachments", "file">>}
ActivityReads == {"activity"} \X {"timeline", "comment"}
DashboardReads == ({"stats", "feed"} \X {"issue", "history"}) \cup {<<"calendar", "issue">>}
InboxReads == {<<"notifications", "inbox">>, <<"prefs", "prefs">>}
Reads == MeReads \cup OrgReads \cup SearchReads \cup MyWorkReads \cup MemberReads \cup InviteReads
           \cup ProjectReads \cup LabelReads \cup IssueReads \cup FileReads \cup ActivityReads
           \cup DashboardReads \cup InboxReads

Altered == {r \in Mutable \X Keys : \E w \in Writes : w[1] = r[1] /\ <<r[2], w[2]>> \in Reads}

-----------------------------------------------------------------------------
(* What the hooks of the mutations invalidate *)

OrgHooks == {"CreateOrg"} \X {"orgs", "me"}
ProjectHooks == {<<"CreateProject", "projects">>}
InviteHookAlone ==  \* a mistake: a pending invite is only seen on the next visit
  {"InviteMember", "UpdateMemberRole", "RemoveMember"} \X {"members"}
MemberHooks ==
  ({"InviteMember", "UpdateMemberRole", "RemoveMember"} \X {"members"}) \cup
  {<<"InviteMember", "invites">>}
PrefsHooks == {<<"UpdatePrefs", "prefs">>}
LabelHooks == {<<"CreateLabel", "labels">>}
IssueHooks == {"CreateIssue", "MoveIssue", "UpdateIssue", "DeleteIssue"} \X {"issues"}
FileHooks == {"UploadAttachment", "DeleteAttachment"} \X {"attachments"}
CommentHooks == {<<"CreateComment", "activity">>}  \* and comments, which nothing asks for
AcceptHooks == {"AcceptInvite"} \X {"orgs", "me"}
InboxHooks == {"MarkRead", "MarkAllRead"} \X {"notifications"}
Invalidates == OrgHooks \cup ProjectHooks \cup MemberHooks \cup PrefsHooks \cup LabelHooks
                 \cup IssueHooks \cup FileHooks \cup CommentHooks \cup AcceptHooks \cup InboxHooks

\* These patch the entry before the server answers, and put it back if it fails.
Patches == {"MoveIssue", "UpdateIssue", "DeleteIssue"} \X {"issues"} \cup
           {<<"UpdatePrefs", "prefs">>}

\* Of the pages those that show an entry or can change it, and one that stands
\* for all others.
Matters == Altered \cup Invalidates
Worth == [q \in Keys |-> {{"rail"}} \cup
            {p \in PageSet : q \in AsksOf(p) \/ \E m \in OffersOf(p) : <<m, q>> \in Matters}]

-----------------------------------------------------------------------------
(* The entry *)

Nothing == [has |-> FALSE, of |-> NoAccount, old |-> FALSE, kept |-> FALSE, misses |-> {}]
NotAsked == [at |-> "none"]
AskFor(a) == [at |-> "asked", of |-> a, late |-> {}, shared |-> FALSE]
Fresh == AskFor(account)
NoMutation == [at |-> "none"]

Shows(p) == query \in AsksOf(p)
NoneSent == mutation.at = "none"

\* A component that uses the query is mounted: the query is run if there is
\* nothing younger than staleTime; one in flight will do.
AppearAsItIs(p, a) ==  \* a mistake: refetchOnMount is off
  IF Shows(p) /\ ~entry.has /\ ask = NotAsked
    THEN ask' = AskFor(a) /\ UNCHANGED entry ELSE UNCHANGED <<entry, ask>>
Appear(p, a) ==
  LET first == ~Shows(page)
      young == entry.has /\ ~entry.old
  IN IF ~ \E c \in p \ page : query \in Asks(c) THEN UNCHANGED <<entry, ask>>
     ELSE IF ask = NotAsked /\ ~young THEN ask' = AskFor(a) /\ UNCHANGED entry
     ELSE /\ entry' = [entry EXCEPT !.kept = @ \/ (first /\ entry.has)]
          /\ ask' = IF ask = NotAsked THEN ask ELSE [ask EXCEPT !.shared = @ \/ first]

\* invalidateQueries: an entry that is shown is asked for again, instead of a
\* query in flight unless that is its first.
Outdate(m) ==
  IF <<m, query>> \notin Invalidates THEN UNCHANGED <<entry, ask>>
  ELSE /\ entry' = [entry EXCEPT !.old = @ \/ entry.has]
       /\ ask' = IF ask # NotAsked /\ (~entry.has \/ ~Shows(page)) THEN [ask EXCEPT !.shared = TRUE]
                 ELSE IF Shows(page) THEN Fresh ELSE ask

PagesInit ==
  /\ query \in Keys /\ page = {"home"} /\ account = CHOOSE a \in Accounts : TRUE
  /\ entry = Nothing /\ mutation = NoMutation
  /\ ask = IF query \in AsksOf({"home"}) THEN Fresh ELSE NotAsked
  /\ deeds = 0
  /\ crossed = {} /\ unanswered = {}

-----------------------------------------------------------------------------
(* Pages and accounts *)

\* A link, a redirect, a dialog.
Visit(p) ==
  /\ account # NoAccount /\ p # page
  /\ page' = p /\ Appear(p, account)
  /\ mutation' = IF NoneSent THEN mutation ELSE [mutation EXCEPT !.left = TRUE]
  /\ UNCHANGED <<query, account, deeds, crossed, unanswered>>

\* The tokens are dropped and the router goes to /login; the cache stays.
SignOut ==
  /\ account # NoAccount /\ page \cap {"rail", "bar"} # {}
  /\ account' = NoAccount /\ page' = {"login"}
  /\ mutation' = IF NoneSent THEN mutation ELSE [mutation EXCEPT !.left = TRUE]
  /\ UNCHANGED <<query, entry, ask, deeds, crossed, unanswered>>
SignIn(a, p) ==
  /\ account = NoAccount /\ account' = a /\ Deed
  /\ page' = p /\ Appear(p, a)
  /\ UNCHANGED <<query, mutation, crossed, unanswered>>

\* The page is loaded anew, with the session, or without it at /login: nothing
\* is cached, nothing is in flight.
Load ==
  /\ account # NoAccount
  /\ entry' = Nothing /\ mutation' = NoMutation
  /\ crossed' = {} /\ unanswered' = {}
  /\ \/ /\ ask' = IF Shows(page) THEN Fresh ELSE NotAsked
        /\ UNCHANGED <<page, account>>
     \/ ask' = NotAsked /\ page' = {"login"} /\ account' = NoAccount
  /\ UNCHANGED <<query, deeds>>

-----------------------------------------------------------------------------
(* Time *)

\* staleTime passes; nothing is asked for.
Age ==
  /\ entry.has /\ ~entry.old
  /\ entry' = [entry EXCEPT !.old = TRUE]
  /\ UNCHANGED <<query, page, account, ask, mutation, deeds, crossed, unanswered>>
\* gcTime passes.
Collect ==
  /\ entry.has /\ ~Shows(page) /\ ask = NotAsked
  /\ entry' = Nothing
  /\ UNCHANGED <<query, page, account, ask, mutation, deeds, crossed, unanswered>>
\* The inbox is asked for every 30 s.
Poll ==
  /\ query = "notifications" /\ Shows(page) /\ ask = NotAsked
  /\ ask' = Fresh
  /\ UNCHANGED <<query, page, account, entry, mutation, deeds, crossed, unanswered>>

-----------------------------------------------------------------------------
(* The query *)

ReadAll ==
  /\ ask.at = "asked"
  /\ ask' = [ask EXCEPT !.at = "read"]
  /\ UNCHANGED <<query, page, account, entry, mutation, deeds, crossed, unanswered>>
Answered ==
  /\ ask.at = "read"
  /\ entry' = [has |-> TRUE, of |-> ask.of, old |-> FALSE, kept |-> ask.shared, misses |-> ask.late]
  /\ ask' = NotAsked
  /\ UNCHANGED <<query, page, account, mutation, deeds, crossed, unanswered>>
\* It fails, and so does its retry: what was there stays.
Failed ==
  /\ Deed /\ ask # NotAsked
  /\ entry' = [entry EXCEPT !.kept = entry.has, !.old = entry.has]
  /\ ask' = NotAsked
  /\ UNCHANGED <<query, page, account, mutation, crossed, unanswered>>

-----------------------------------------------------------------------------
(* A mutation *)

Mutate(m) ==
  /\ NoneSent /\ Deed
  /\ account # NoAccount /\ <<m, query>> \in Matters /\ m \in OffersOf(page)
  /\ mutation' = [at |-> "sent", m |-> m, left |-> FALSE,
                  saved |-> IF <<m, query>> \in Patches THEN entry ELSE Nothing]
  /\ IF <<m, query>> \in Patches  \* what is patched is on the page
       THEN entry.has /\ entry' = [entry EXCEPT !.old = FALSE] /\ ask' = NotAsked
       ELSE UNCHANGED <<entry, ask>>
  /\ page' = IF m = "DeleteIssue" THEN page \ {"card"} ELSE page
  /\ UNCHANGED <<query, account, crossed, unanswered>>

\* The server has made the change.
Store ==
  /\ mutation.at = "sent"
  /\ mutation' = [mutation EXCEPT !.at = "stored"]
  /\ LET m == mutation.m IN
       /\ entry' = IF <<m, query>> \in Altered /\ entry.has
                     THEN [entry EXCEPT !.misses = @ \cup {m}] ELSE entry
       /\ ask' = IF <<m, query>> \in Altered /\ ask.at = "read"
                   THEN [ask EXCEPT !.late = @ \cup {m}] ELSE ask
       /\ crossed' = IF mutation.left THEN crossed \cup {m} ELSE crossed
  /\ UNCHANGED <<query, page, account, deeds, unanswered>>
Succeeded ==
  /\ mutation.at = "stored"
  /\ Outdate(mutation.m)
  /\ mutation' = NoMutation
  /\ UNCHANGED <<query, page, account, deeds, crossed, unanswered>>

\* It is refused, or its answer is lost: only what was patched is put back and
\* asked for again.
GivenUp ==
  /\ mutation.at # "none" /\ Deed
  /\ LET m == mutation.m IN
       IF <<m, query>> \in Patches
         THEN /\ entry' = [mutation.saved EXCEPT !.old = TRUE, !.kept = TRUE]
              /\ ask' = IF Shows(page) THEN Fresh
                        ELSE IF ask = NotAsked THEN ask ELSE [ask EXCEPT !.shared = TRUE]
         ELSE UNCHANGED <<entry, ask>>
  /\ unanswered' = IF mutation.at = "stored" THEN unanswered \cup {mutation.m} ELSE unanswered
  /\ mutation' = NoMutation
  /\ UNCHANGED <<query, page, account, crossed>>

PagesNext ==
  \/ \E p \in Worth[query] : Visit(p)
  \/ SignOut
  \/ \E a \in Accounts, p \in Worth[query] : SignIn(a, p)
  \/ Load \/ Age \/ Collect \/ Poll
  \/ ReadAll \/ Answered \/ Failed
  \/ (\E m \in Mutable : Mutate(m)) \/ Store \/ Succeeded \/ GivenUp

PagesSpec == PagesInit /\ [][PagesNext]_pagesVars

-----------------------------------------------------------------------------
(* Properties *)

PagesTypeOK ==
  /\ query \in Keys /\ page \in PageSet /\ account \in Accounts \cup {NoAccount}
  /\ entry \in [has : BOOLEAN, of : Accounts \cup {NoAccount}, old : BOOLEAN, kept : BOOLEAN,
                misses : SUBSET Mutable]
  /\ ask.at \in {"none", "asked", "read"}
  /\ ask # NotAsked => ask.of \in Accounts /\ ask.late \subseteq Mutable /\ ask.shared \in BOOLEAN
  /\ mutation.at \in {"none", "sent", "stored"}
  /\ deeds \in 0 .. MaxDeeds /\ crossed \subseteq Mutable /\ unanswered \subseteq Mutable

\* Nothing is under way, and what the page shows was asked for by it: it was not
\* younger than staleTime when the page came, nor the answer to an earlier
\* question, nor what a failure left.
Settled == NoneSent /\ ask = NotAsked /\ Shows(page) /\ entry.has /\ ~entry.kept

\* Changes that their own page does not show: the timeline of the card that is
\* edited, the panels of the dashboard an issue is created on, counts, the role
\* that an invitation of one's own address has left one with.
Unnoticed ==
  ({"CreateIssue"} \X {"projects", "stats", "feed", "calendar", "mywork"}) \cup
  {<<"DeleteIssue", "projects">>, <<"UpdateIssue", "activity">>,
   <<"CreateProject", "orgs">>, <<"CreateProject", "search">>,
   <<"InviteMember", "me">>, <<"InviteMember", "orgs">>, <<"RemoveMember", "orgs">>}

\* Everything else that is changed on a page is then shown on it, whatever was
\* in flight: hooks.ts invalidates it, and what was on its way is asked for
\* again.  A change that was still being made when its page was left may be
\* missing on the next one too, if no hook invalidates what that shows.
OwnChangesShow ==
  Settled => \A m \in entry.misses \ unanswered :
    <<m, query>> \in Unnoticed \/ (m \in crossed /\ <<m, query>> \notin Invalidates)

\* The cache outlives the account that filled it (use-sign-out.ts:16), and no key
\* names it.  What the next one sees is its own once its pages have asked for it
\* and been answered.  They show what the former has left if it was young when
\* they came, if a question of the former was still open, or if their own has
\* failed, and then for as long as nothing makes them ask again: they are not
\* left and visited, no mutation invalidates it, nothing polls it, the page is
\* not loaded anew.  That it grows old does not (refetchOnWindowFocus is off).
NobodyElsesData == Settled => entry.of = account
=============================================================================
