# Kairo in TLA+

Kairo is a multi-tenant issue tracker: a NestJS API (`apps/api`), a Next.js web
client (`apps/web`), a Postgres schema (`packages/db`) and shared types
(`packages/types`). This directory holds TLA+ models of the parts of it that are
hard to test (handlers that overlap, transactions that fail, events that overtake
commits, ranks that run out of room), the TLC configurations that model-check
them, and TLAPS proofs of the results that matter most.

```
tlc -workers 2 -config MCIssues.cfg MCIssues.tla     # a run
tlapm IssuesProofs.tla                               # the proofs of a module
```

Paths below are relative to `src/`.

## The system and its hard parts

A request enters the API through guards (JWT, tenant, RBAC); then
`TenantRlsInterceptor` opens one Postgres transaction around the whole handler
and sets the tenant for the row-level policies. The `/auth` routes and the
background workers run outside it. Handlers reach three things that no
transaction covers: the audit log (through the plain client), the realtime
gateway (Socket.IO) and the notification queue (BullMQ on Redis). The browser
keeps a TanStack Query cache that it patches optimistically, refetches, and
updates from events.

| Component | State | Operations | Talks to | Hard behaviour | Correct when |
|---|---|---|---|---|---|
| Refresh-token store, `modules/auth/token.service.ts` | `RefreshToken` rows | login, rotate, logout, reuse detection | web session (cookie) | every statement commits alone; handlers of one token overlap | a session has one user, is handed over rather than copied, and stays over |
| Issues, `modules/issues/issues.service.ts` | `Issue` rows, `Project.issueCounter` | create, update, move, remove | audit, gateway, queue | overlap under READ COMMITTED; event before commit; time-out under a running handler | numbers are unique, no update is lost, boards show what is stored, everybody ends |
| Fractional rank, `packages/types/src/rank.ts` | ranks of a column | `rankBetween`, `firstRank` | issues, seed | boundaries of the midpoint; endless drops in one gap | a rank sorts strictly between its neighbours |
| Tenant transaction, `common/interceptors`, `common/prisma` | open transactions | begin, commit, roll back, 15 s limit | every tenant handler | the limit passes while a handler awaits something else | nothing half-written; nothing held for ever |
| Audit, `common/audit` | `AuditLog` rows | record | all services | own connection, swallowed errors | a change that happened is recorded |
| Notifications, `modules/notifications` | BullMQ jobs, inbox rows | enqueue, process, retry, mark read | issues, comments, mail | a retry after half of the work | the right person is told, once |
| Realtime gateway, `modules/realtime` | rooms, presence counts per socket | join, leave, disconnect, emit | boards | awaits inside join; disconnects; duplicate joins | the roster is who is there; a joined board gets every event |
| Board cache, `apps/web/lib/hooks.ts`, `use-board-realtime.ts`, `board.tsx` | query cache, saved snapshots | optimistic move, refetch, roll-back, apply event | issues, gateway | answers and events out of order | the board converges to the server |
| Web session, `apps/web/lib/api.ts` | access token, cookie | refresh on 401, sign out | token store | several tabs, one cookie; lost answers | an unattended tab does not end the session |
| Members and invites, `modules/orgs` | `Membership`, `Invite` | invite, accept, change role, remove | mail | check in one statement, write in the next | owners are left alone; a change acts on what it checked; an invite is used once |
| Tenant guard and RBAC, `common/guards` | none (reads) | admit | members | the role may change after admission | nobody acts with a role they do not have |
| Billing, `modules/billing` | plan and Stripe ids of an organization | checkout, portal, webhooks | Stripe | events repeated and out of order | the plan follows the subscription |
| Attachments, `modules/attachments` | rows and stored objects | presign, confirm, remove | object store, browser | two stores, one transaction | no row without its object |
| Comments, `modules/comments` | `Comment` rows | create | queue | watchers read before the insert | author never, everybody else concerned once |
| Demo activity, `modules/demo-activity` | as issues | tick | issues | writes with no event and no shared transaction | as issues |
| Seed, `packages/db/prisma/seed.ts` | everything | seed, seed again | issues | resets the counter | numbers stay unique |
| Web pages, `apps/web/app`, `apps/web/components` | the query cache of a tab | visit, mutate, sign in and out | all services | mutations and queries in flight when a page or an account changes | a page shows what its user has done, and nobody else's data |

Projects, labels, the dashboard and the activity feeds are single statements decided
by a unique key, or only read; they appear as what the pages' queries read and their
mutations write. Marketing pages, shared UI, configuration and logging are not modelled.
`PROJECT.json` lists all components, and under `hazards` the places where each
hard behaviour bites, with the properties that watch it.

## Modules

| Module | What it is | Code |
|---|---|---|
| `Tokens` | the refresh-token store, one action per statement | `token.service.ts`, `auth.service.ts`, `auth.controller.ts` |
| `SessionLife` | abstract specification: a session begins once, for one user, and never returns | |
| `MCTokens` | instances of `Tokens` | |
| `TokensProofs` | theorems about `Tokens` | |
| `Rank` | `RankBetween`, `FirstRank` and string order, as operators | `packages/types/src/rank.ts` |
| `RankProofs` | theorems about `Rank` | |
| `RankColumn` | one column arranged by drops, one request at a time | `issues.service.ts`, `board.tsx` |
| `Issues` | four issue operations that overlap, in transactions that may fail | `issues.service.ts`, `tenant-rls.interceptor.ts`, `prisma.service.ts`, audit, gateway, queue, board |
| `MCIssues` | instances of `Issues` | |
| `IssuesProofs` | theorems about `Issues` | |
| `Members` | invitation, acceptance, role change and removal that overlap, in one organization | `orgs.service.ts`, `tenant.guard.ts`, `rbac.guard.ts`, `mail.service.ts`, audit, queue |
| `MCMembers` | instances of `Members` | |
| `MembersProofs` | theorems about `Members` | |
| `Session` | the tabs of one browser and their shared cookie; extends `Tokens` | `lib/api.ts`, `providers.tsx`, `auth-store.ts`, `use-sign-out.ts`, `login/page.tsx`, `auth.controller.ts` |
| `MCSession` | an instance of `Session` | |
| `SessionProofs` | theorems about `Session` | |
| `Presence`, `PresenceProofs` | rooms and rosters, and the browser's side of them | `realtime.gateway.ts`, `use-board-realtime.ts`, `socket.ts` |
| `Tenancy` | the setting that scopes a transaction, on pooled connections | `prisma.service.ts`, `tenant-rls.interceptor.ts`, `tenant-context.ts`, `audit.service.ts`, the RLS migrations |
| `Delivery` | from a comment to inboxes and mail | `comments.service.ts`, `notifications.service.ts`, `notifications.processor.ts`, `mail.service.ts` |
| `MCServices` | an instance of `Presence`, `Tenancy` and `Delivery` | |
| `ServicesProofs` | theorems about `Tenancy`, `Delivery` and `MCServices` | |
| `BoardCache` | the list of issues of one browser: queries, optimistic mutations, events | `lib/hooks.ts`, `use-board-realtime.ts`, `board.tsx`, `issue-modal.tsx` |
| `Attachments` | files between the database and the object store | `attachments.service.ts`, `storage.service.ts`, `uploadAttachment` |
| `Billing` | checkouts and Stripe's webhooks, for one organization | `billing.service.ts` |
| `Seeding` | issue numbers drawn by requests, by demo ticks and by the seed script | `seed.ts`, `demo-activity.processor.ts`, `issues.service.ts` |
| `Pages` | the query cache behind all pages of a tab | `apps/web/app`, `apps/web/components`, `lib/hooks.ts`, and what every service reads and writes |
| `MCBoard` | an instance of `BoardCache`, `RankColumn`, `Attachments`, `Seeding`, `Billing` and `Pages` | |
| `BoardProofs` | theorems about these six and `MCBoard` | |

`MCServices` and `MCBoard` check several modules in one run. Their modules share no
variable, so a behaviour picks one of them (`service`, `part`) and the others stay as they
begin: the states of the run are the union of the modules' states, not their
product, and every property speaks of one module. That a behaviour of the composition is one
of each module is proved (`ServicesAreServices`, `PartsAreParts`).

### Tokens

`row` is the table, keyed by the token (which stands for its hash). A handler
(`pc`) is between statements; `grant` is the user and family it carries from its
lookup to its insert, `presented` the token it was given. `RotateLookup` is
`findUnique` with the check behind it, `Consume` the update that revokes the
presented row, `CreateRefresh` the insert, `RevokeFamily` the `updateMany` of
both logout and reuse detection. `Fail` is a statement that throws or a process
that dies: what was written stays, as each statement is its own transaction. Time
is only the event `Expire`. `condemned` and `forked` are history variables: no
guard reads them.

Left out: passwords, JWTs (they live 15 minutes and are checked without the
store) and cookie attributes. Any stored token may be presented at any time, which covers
every client; `Session` says which one a browser presents.

### Issues

`issue` and `counter` are what is committed, `pending[r]` the row version a
request has written and nobody else sees, `call[r]` its input and what it has
read. A step is one database statement or one effect: `CreateCount` (the counter
bump), `CreatePlace` (read the last card, insert), `UpdateRead`, `MoveRead`,
`MoveAbove`, `MoveRank`, `RemoveRead`, `Write` (UPDATE or DELETE by id), `Audit`,
`Emit`, `Notify`, `Commit`.

* READ COMMITTED: a read takes what is committed then; `Write` and `CreateCount`
  wait for the transaction that holds the row and then work on the version
  committed last. No transaction writes two rows that another also writes, which
  is why waiting never forms a cycle; `RequestsFinish` checks it.
* The handler runs inside the transaction and the commit comes after it returned
  (`tenant-rls.interceptor.ts:39-43`), so `Audit`, `Emit` and `Notify` precede
  `Commit`.
* `Timeout` is the 15 s limit (`prisma.service.ts:54`): the database rolls back and
  frees the rows, the handler goes on until its next statement (`Expired`).
  `Die` is a failed statement, a failed enqueue or the end of the process.
* `view` is the board of a client that has applied every event
  (`use-board-realtime.ts:28-38`). Clients that refetch or patch optimistically are
  the subject of `BoardCache`, those that reconnect that of `Presence`.
* A drop sends the cards on either side of the gap, taken from the committed
  column when the move is read (`Gaps`, `board.tsx:91-160`); they may move on
  before `MoveAbove` and `MoveRank` read them. `Filtered` lets a client drag on a
  filtered board, where the neighbours it sees are not adjacent.
* An update sets one column, its status or its assignee. They are the columns
  that other operations, notifications and ranks depend on; the other columns (title,
  description, priority, due date) are written the same way. Labels are not: they are rows
  of a table of their own, replaced as a set in the statement that updates the issue, and no
  event has them (`issueSelect`). `BoardCache` has them. `number` and `reporter` are never
  set by an update, which `OnlyWrittenColumnsChange` relies on.
* The insert of a create and the read before it are one step: nobody sees the
  insert before the commit, and its id is new.

A request is made once and its record is kept, so that properties can speak of
what it announced. `MaxOpen` bounds how many are in progress at once.

### Members

`member` and `invite` are the two tables as committed, for one organization; a user
stands for the address too. A membership has the id of the request that inserted
it and an invite the token of the request that issued it, so that a membership
that was removed and made again is told from the one before (updates and deletes
go by id, `orgs.service.ts:364`). `call[r]` is what a request has asked for and
read.

* `Admit` is `TenantGuard` and `RbacGuard`, outside the transaction; nobody asks
  again. `LookUpUser` and `ReadTarget` are the first statements of the three tenant
  handlers, `ReadInvite` that of `acceptInvite`, which has no tenant transaction:
  it opens a short one for its two writes and audits and notifies after it. A link
  can be opened only if it was mailed and its invite committed.
* A membership upsert selects relations, so Prisma runs it as a read and then an
  insert or an update (`SelectMember`, `WriteMember`). The invite's upsert is one
  statement.
* `WriteMember`, `BurnInvite` and `UpsertInvite` wait for whoever holds the row, as in
  `Issues`; as nobody else can write a row that is held, the new version is computed
  at `Commit` (`MemberAfter`, `InviteAfter`).
* `Unreliable` requests may time out, die, or have their mail or audit row lost: both
  services swallow the error (`mail.service.ts`, `audit.service.ts`).
* `Register` gives an address an account, `InviteExpires` is the clock.

Left out: creating an organization (a slug and one insert), the lists, and what
the row-level policies exclude (`Tenancy`).

### Rank and RankColumn

A rank is the sequence of its digits, in base `Base` instead of 62. `Less` is the
string order that JavaScript and Postgres (C collation) share for these digits.
The loop of `rankBetween` (`rank.ts:33-50`) copies a's digits until a position leaves room
for a digit in the middle; `RankBetween` is its answer, written without the recursion: the
digits up to the first such position, found at the latest behind both bounds. `RankColumn`
builds on it the history of one column. A comment in `rank.ts:6-7` says the
midpoint is the shortest one; it is not always (between "1z" and "21" the code
answers "1zV" where "2" fits), and nothing depends on it.

### Session

Extends `Tokens` with the browser that presents the tokens. All tabs share `cookie`; a
request carries it as it was when it was sent, and the answer sets it when it
arrives. `call[r]` is the request that handler `r` serves, `page[tab]` where a tab is
and what `Providers` waits for.

* `Restore` is the effect of `providers.tsx:21-28`, a request like any other: when it is
  answered 401 `request` refreshes by itself (`next = "refresh"`), and when that succeeds it
  repeats the first (`"again"`, `api.ts:74`), a third rotation, with the splash still up. A
  refresh that fails away from the login page loads that page (`Redirects`), which
  abandons whatever else the old one was waiting for (`Abandoned`, `Unheard`). `Unauthorized` is any API call that is answered 401
  (`api.ts:56-85`): it joins the refresh of its tab if there is one (`refreshing ??=`).
  `Submit` is the login form and `useSignOut`.
* `Arrive` and `Handle` are the statements of `Tokens`, one at a time, so other tabs and
  handlers come in between; `Deliver` gives the answer to its tab (`PageAfter`,
  `CookieAfter`).
* Mishaps are page loads, broken connections and handlers that die. After a page
  load or a broken connection the handler goes on with nobody to hear it.
* `AnyOf` picks among tokens, families and handlers that are interchangeable; it does
  what a symmetry set would, which liveness properties do not allow.
* `Owing`, `Twice`, `Room` and `RoomToLogIn` bound a run by its tokens and translate no code:
  a request is only asked for if it, and all that its answer can ask for, find a token.
* No token gets so old that it expires: `Tokens` covers that.
* `history` says what befell a family: a token the browser missed (`lost`), one that two
  tabs presented at once (`overlapped`), a refresh and a sign-out under way together
  (`crossed`), a sign-out sent (`leaving`) and answered (`left`).

Two observations that no document contradicts. Two tabs that refresh together
(`overlapped`) revoke the session of the whole browser, as the single flight is per
tab. And a second account that signs in in one tab silently becomes the account
of the other at its next refresh.

### Presence

`page`, `line`, `sock`, `out` and `list` are the browser's, `inRoom`, `rooms` and `count` the
gateway's: `inRoom` is what Socket.IO keeps, `rooms` is `client.data.rooms`, and `count` the
`presence` map. `Show` and `Hide` are the effect of `useBoardRealtime` and its cleanup,
over the one socket of the page (`socket.ts`). `Drop` loses a connection with all
that is on it; Socket.IO dials again, the effect does not run. On the server
`TakeJoin` starts `onJoin`, which awaits the database, and `FinishJoin` is the rest of
it; leaves, disconnects and `handleConnection` (`Greet`, `Reject`) may come between.
`spoiled` notes the sockets on which one handler overtook another. One API node.

### Tenancy

A connection of the pool has the setting `app.current_org_id`; `Visible` is the policy
of the migration, in which an unset or empty setting shows everything. A tenant
request borrows a connection for the guard, begins its transaction, sets the
organization (`SetOrg`), and reaches whatever its statements see (`Statement` has no
`WHERE`); its audit insert takes a second connection while the first is kept. A
`Store` is the `AsyncLocalStorage` entry its statements go by. `GiveUp` is the pool's
time-out, `Expire` the transaction's. Comments, attachments, mentions, subscriptions and
issue labels have no policy of their own: `Policed` is a subset of `Tables`. The model is of the
role the policies apply to. In development the API connects as the superuser `pm`, which
bypasses them (`ARCHITECTURE.md:157-159`): there `Visible` is everything, and what keeps
tenants apart is the `WHERE` of every statement, which is not modelled.

### Delivery

`Resolve`, `Insert`, `Enqueue` and `Commit` are `CommentsService.create`; as jobs are put on
the queue before the commit, a comment that fails may leave jobs. The worker's
`StoreRow`, `ReadUser` and `SendMail` are one attempt; `AttemptFails` costs one of three,
`Die` one stall. Around them people leave, change preferences, or become the
assignee. BullMQ is external: it loses nothing that was put on the queue.

### BoardCache

The server is `log`, the changes in the order of their events, of which `committed` have
ended; the browser has `heard` some. A handler emits before its transaction ends, so a change
may be heard before a query sees it, and one that is `void` is heard and then rolled back
(`End`: the 15 s limit, a later statement that fails), and its own browser is answered with an
error. Transactions end in the order of their events; `Allowed` waits for the one that holds
the card's row. `cache` is the list, `fetch` the query in flight, `call` the mutations with
their snapshots. `Begin` is `onMutate` (cancel, snapshot, patch), `Succeed` and `GiveUp` are
`onSettled` and `onError`; `Arrive` replaces the list by the answer, whatever happened
meanwhile, and `Hear` patches it.

A row is a place, a text and labels. An event carries `issueSelect`, which has no labels
(`Patch`, `issues.service.ts:20-34`), so those another user sets in the modal
(`issue-modal.tsx:563-567`) reach a board only with its next query. A query answers at most
`Limit` issues (`FirstOf`; 100 in `hooks.ts:215`, cut by `issues.service.ts:86`). `Blur` saves
the modal's draft, which does not follow the list (`issue-modal.tsx:503-512`), so it can write
back a title that somebody else has changed. `ARCHITECTURE.md:86-87` says that a client
ignores its own echo; the code does not (`use-board-realtime.ts:28-38` applies every event),
and neither does `Hear`. A drop that `onDragEnd` ignores is not a step; one onto an empty
column is among them, as both its neighbours are `null` (`board.tsx:142`).

### Attachments

`stored` is the bucket, `rows` the table. An upload is presigned, put by the browser and
confirmed; a removal finds its row, deletes it, deletes the object, and commits or rolls
back. `holder` is the row lock that two removals, or a removal and the cascade of a
deleted issue, wait for. `RollBack` frees the row at once, whatever the handler is waiting for:
one that awaits the object store goes on and deletes the object when the row is listed again
(`DeleteLate`), and fails at its next statement. Keys are drawn at random, so a key stands for
its upload. Left out: a presigned URL that is used a second time, after the file was
removed; it stores an object that no row refers to.

### Billing

A checkout reads the organization's customer, or makes one and stores it, and gets a
session; whoever pays has a subscription. Every change of one is an event with what
it was like then. Webhooks have no transaction: `FindRecord` and `WriteRecord` are two
statements, of several handlers at once; events come in any order, and repeatedly. A
subscription may move to a price that is not configured, which makes the plan `FREE` like a
cancelled one (`billing.service.ts:120-125`). `replaced`, `stale` and `unmatched`
are history variables.

### Seeding

Three writers of a project's issue numbers: requests hold the project's row from the
increment to the commit, ticks of the demo activity increment and insert in two
committed statements, and the seed script upserts its issues one by one and then sets
the counter, each statement committed alone: it may die between any two of them (`SeedDies`)
and be started again. `setBack` notes that it set the counter below a number in use, `counted`
that some run came as far as setting it, `early` the numbers that were drawn before one had.

### Pages

One entry of the query cache (`query`) through the pages, mutations and accounts of a
tab. A component is what it asks for, what it offers, and what it mounts, each
translated from its hooks; `Writes` and `Reads` say what the services' operations change
and their queries read, `Invalidates` what the hooks invalidate. The steps of the
entry are those of the query library (external): a component that mounts asks
unless the entry is younger than `staleTime`; invalidating restarts what is in flight
if the entry is shown and not loading for the first time; an error leaves the data.
`Patches` are the optimistic hooks. Accounts have every permission, so that no
component is left out. The palette's search and the sidebar's projects stand for those
of their pages. One mutation at a time, one entry at a time: entries do not interact. Of
the pages that neither show nor change an entry, one stands for all (`Worth`).

## Runs

| Run | Question | Instance | Outcome |
|---|---|---|---|
| `tokens` | Can overlapping handlers hand a session to another user, copy it unseen, or bring it back? | 3 handlers that may die, 3 tokens, 2 families, 2 users, symmetric | holds |
| `tokens_single_use` | "A token is single-use" (`schema.prisma:104`) | 2 handlers, 1 family | **violated** |
| `tokens_revoked_family` | "the whole family is revoked" (`token.service.ts:26`) | 2 handlers, 1 family | **violated** |
| `issues` | Do numbers, row versions, events and endings stay right when two requests overlap? | 2 requests of any kind, one may time out or die, 2 cards, 2 columns, 2 users | holds |
| `drop_after_edit` | Can a card be dropped into every gap (`rank.ts:4`)? | 2 requests, one at a time | **violated** |
| `announced` | Is an event always "after a successful write" (`ARCHITECTURE.md:85`)? | 1 request that may fail | **violated** |
| `reassign` | Is the new assignee told (`issues.service.ts:262`)? | 3 updates of one card, 2 overlapping | **violated** |
| `members` | Do changes of members act on what they checked, are links spent, owners left alone, requests ended? | 3 requests of any kind, 2 overlapping, one may fail, an owner and one other | holds |
| `link_works_once` | "a one-time accept link" (`orgs.service.ts:178`) | 3 reliable requests, 2 overlapping | **violated** |
| `session` | What can end a browser's session, is a sign-out final, does every tab settle? | 2 tabs, 2 handlers (one may die), 4 tokens, 2 families, 1 mishap | holds |
| `services` | Are rosters right, tenants apart, people told once; do boards join, requests and jobs end? | `Presence`: 2 tabs, 2 boards, 3 connections, 3 moves; `Tenancy`: 2 requests and a job on 2 connections; `Delivery`: a comment, 2 people, 1 change | holds |
| `board` | Do caches, ranks, files, numbers and the subscription come out right, but for named causes? | `BoardCache`: 2 cards, 1 label, a list of 1, 3 of 2 mutations, 1 change of others and 1 fault; `RankColumn`: base 4, 3 cards, 4 digits; `Attachments`: 2 uploads, 2 removals; `Seeding`: 2 creations, 1 tick, 2 runs; `Billing`: 2 checkouts, 2 handlers, 2 events each, 2 prices; `Pages`: 15 queries, 2 accounts, 2 deeds | holds |

What they show:

* **Sessions.** `SingleHolder` says how far rotation protects a session: unless a
  handler consumes a row that another has already revoked, a family has one
  holder. The code allows exactly that case, since `rotate` revokes by id without
  asking whether the row is still unrevoked; `tokens_single_use` exhibits it. In
  the same way a rotation that is past its check survives the revocation of its
  family (`tokens_revoked_family`). What does hold in all cases is that a session
  has one user and, once nothing of it is live and no handler is half-way
  through, never returns (`SessionNeverReturns`, refinement of `SessionLife`).
* **Issues.** Although every handler reads a row long before it writes it, a commit
  changes only the columns its statement set (`OnlyWrittenColumnsChange`), and
  numbers are drawn under the project's row lock (`NumbersAreFresh`). Events are
  emitted before the commit but while the row is held, so events of one issue are
  emitted in commit order and a board converges for every issue whose announced
  changes all commit (`BoardInSync`). It is the row lock that makes this true,
  not the order of statements. For a change that rolls back after the event it
  fails, and so does the documented promise (`announced`).
* **Ranks.** Within a column, one request at a time, ranks always leave room
  (`InOrder`; no rank ends in the digit zero), and a rank that a handler computes fits
  between the neighbours it read, whatever happens to them meanwhile (`RanksFit`). An edit of the status
  moves a card to another column with the rank it had, so two cards can share a
  rank, and then nothing can be dropped between them (`drop_after_edit`): the board
  takes equal ranks for a drop in place (`board.tsx:142`) and the server answers 400
  (`issues.service.ts:331-334`). The run makes one request at a time. Overlapping creates, and
  overlapping moves into one gap, store equal ranks as well: they read the same neighbours
  before either commits. `RanksFit` covers what is computed from the neighbours, and no
  property says that two ranks differ.
* **Notifications.** `update` compares the new assignee with the row it read before
  it waited for the row, so with two updates overlapping, the user who becomes the
  assignee may hear nothing (`reassign`).
* **Members.** `updateMemberRole` and `removeMember` check in one statement and write in
  the next, and still never touch an owner or a membership that has replaced the
  one they checked: the write goes by the row's id, and no membership becomes an
  owner's (`ActsOnWhatItChecked`, `OwnersOnlyInvitedAway`). What their check does not
  cover is `addMember`, whose upsert gives the role it asks for to any address: an
  invitation of the owner's own address makes the owner a plain member
  (`orgs.service.ts:193`); `OwnersOnlyInvitedAway` says it is the only way. A link that
  has admitted somebody is refused from then on (`UsedLinkIsSpent`), but an acceptance
  that had read the invite before is not, and brings back a user who was removed
  in between (`link_works_once`). Its burn goes by the invite's id, so it also spends
  a new link that the address was sent meanwhile. A mail leaves before the commit;
  if that fails, its link is dead, and nothing in the model or the code can call
  it back.

* **Browser sessions.** Reuse detection ends a session only after a sign-out, after an
  answer that the browser missed, or when two tabs refreshed at once
  (`ThrownOutForAReason`); one tab alone never presents a spent token. An answered
  sign-out is final for all tabs, unless a refresh of the same session was under way with
  it (`SignedOutIsOver`, the browser's side of `tokens_revoked_family`). No fault leaves a
  tab in its splash or with a refresh that never ends (`TabsSettle`).
* **Presence.** Nobody who is on a board is missing from its roster (`NobodyIsMissing`), and
  whoever is counted though gone had a leave or disconnect overtake a join of the same
  connection (`GhostsWereOvertaken`): `onLeave` does nothing about a join that awaits the
  database, and `handleDisconnect` neither. Such a ghost stays until the process ends. A board
  that has joined its room shows the roster (`ListFollowsRoster`), and a join that is sent is
  served (`ShownIsJoined`). What none of them says, because the code does not do it: after a
  lost connection the board is not joined again until its effect runs.
* **Tenants.** A handler without a single `WHERE` would stay inside its organization in every
  table that has the policy (`StaysInside`), and the plain client always sees everything
  (`PlainSeesAll`): the setting ends with its transaction, however that ends, and the
  policy takes both unset and empty for "all". Handlers can hold all connections and wait
  for each other's audit insert; the pool's time-out ends it (`WorkersEnd`).
* **Notifications of comments.** Everybody concerned is told once, a second inbox row comes
  only of an attempt that stored the first and then failed, a second mail only of a worker
  that died as it sent (`ToldOnce`). The assignee at the time of the insert is told unless
  he became so meanwhile (`AssigneeIsTold`). Every job ends (`JobsEnd`).
* **The board's cache.** Once nothing is under way the board shows what the server has,
  but for seven causes (`Converges`): events before the first answer; an event that was missed,
  or that nobody sends (of a tick, of the seed, of a deleted label); a restored snapshot; an
  answer overtaken by an event; a change of labels, or a creation with labels, heard as an
  event; an event of a change that was rolled back; more issues than a query answers. The
  query after each mutation of this browser mends what a snapshot or an answer spoilt
  (`SettledIsRefetched`); everything else stays wrong until the next query, and the limit for
  as long as the project is that large.
* **Files.** A listed file has its object unless its removal emptied the bucket and has not
  committed, or was rolled back and had the object deleted, before that or, after a time-out,
  even later (`ListedCanBeFetched`); an object without a row was given up
  knowingly (`NoOtherOrphans`), as the files of a deleted issue are.
* **Numbers.** Requests, ticks, deletions and roll-backs never make a draw clash
  (`ClashNeedsSeed`): only a seed that sets the counter back does, or a draw from before any
  run has set it, because the first one is still under way or died on its way there. From then on every creation fails until the counter is past the number.
* **Billing.** The plan follows the one subscription of an organization unless events were
  written out of order or its customer was overwritten by another checkout
  (`RowFollowsStripe`); both happen, as nothing compares an event with what was written.
* **Pages.** What a user changes is then shown on the page he is on, whatever was in flight,
  except for twelve pairs that no hook invalidates (`Unnoticed` in `Pages`: for
  example the timeline of a card that is being edited, the dashboard on which an issue
  is created, one's own role after inviting one's own address) (`OwnChangesShow`). Signing out keeps the cache (`use-sign-out.ts:17`).
  The next account in the tab is shown the former's data if that was younger than 10 s when
  the page came, if a question of the former was still open, or if its own query failed; and
  then for as long as nothing makes the page ask again, however old the data gets, since
  `refetchOnWindowFocus` is off and growing stale asks for nothing. A sidebar that stays
  mounted keeps the former's name and organizations until a mutation invalidates them or the
  page is loaded anew. What `NobodyElsesData` says is that a page whose own question was
  answered never shows anybody else's data.

### Bounds, and why they are enough

* `Tokens`: the hazards need two handlers of one token; the third lets a logout or
  a login run through them. A login and two rotations of one family use three
  tokens, so a fork and what comes of it fit; with two families, tokens of two
  sessions meet. No constant of the module is tied to these numbers, and the
  safety properties are proved for all of them.
* `Issues`: every hazard is one request between two statements of another. Two
  requests on two cards cover same row, neighbouring row and other row; two
  columns cover moves within and between. Four ids leave each of two creates its
  own. One reliable and one unreliable request show both that a failure leaves the
  other unharmed and that the other's work is unaffected. One actor is enough, as
  the actor only decides who is not notified. `reassign` takes a third request, the
  one that had set the assignee the stale read saw.
* `Members`: two overlapping requests of the four kinds on the owner and one other
  person cover same row and other row; the third request is what comes before or
  after them (a removal after an acceptance, a second invitation). The starts are a
  member, and an address that was invited and may register during the run.
  `link_works_once` starts with an invited account.
* `Rank`: base 4 has the cases of 62: a midpoint that exists, one that does not
  (adjacent digits), a lower digit at the top, a digit zero. Four digits allow
  three drops in one gap after another.
* `Session`: two tabs are what sharing a cookie takes. Two handlers at once, four tokens
  in two families: a login, and a restore with its refresh and its repetition, or another
  login. One mishap is enough
  for each cause that the properties name.
* `Presence`: two tabs, of one user or of two, over three connections: one of them can be
  lost and dialled again. Three moves are a join, a switch or a lost connection, and what
  follows; more only repeats them. `Tenancy`: two organizations on two connections, so both
  can be taken by handlers that want a third, and each is used again by somebody else.
  `Delivery`: the jobs of a comment are independent; three attempts and one stall are the
  code's own numbers.
* `BoardCache`: `MaxTogether` bounds mutations, changes of others and faults in all to three:
  two mutations that overlap and one event or fault between them is the largest of the
  hazards. Two cards are one that is there and one that is created; a list of one is then cut
  as soon as both exist. One label is set or not; a card is created in the first place, with
  the label or without. An announced change that is rolled back counts as a fault.
* `Attachments`: two removals of one file, or one each, with the deletion of the issue.
  `Seeding`: two seeded issues, two creations and a tick reach a counter of five; the second
  run of the script is the one that sets it back, or that follows one that died. `Billing`: two
  checkouts make both a replaced customer and a second subscription; two events of one can be
  swapped, handled together, and one is repeated; one price is configured and one is not. All three are proved without these bounds.
* `Pages`: `MaxDeeds` = 2 allows a mutation and a fault, two mutations, or a change of account
  and one of these; pages may be visited without bound.
* `MaxCards` and `MaxLen` bound `RankColumn`, `MaxOpen` and the set `Requests` bound
  `Issues`, the set `Tokens` bounds logins and rotations.

### Fairness and deadlock

`WF_vars(Continue(r))` in the `FairSpec`s of `Issues` and `Members`: once a request has been
accepted the Node event loop carries it on, and the database serves a statement whose row is
free. Starting requests, expiry, time-outs and crashes get no fairness: nobody
owes them. Weak fairness is enough for a waiting `Write`: the holder's own steps
are continued, and no new holder can come between for ever as requests are
finitely many in a run.

`SessionFairSpec`: a request that was sent is served and answered, each weakly fair, as
handlers do not wait for each other. A page that was loaded asks for its session
(`Restore`), strongly fair: only the bound on handlers can hold it up, again and again,
where a browser has no such bound. Users, page loads and faults owe nothing.

`ServicesSpec` has one weakly fair disjunction per service: handlers of the gateway that
have started, workers that hold or wait for a connection, and jobs on the queue go on,
one or another of them. Every one of these steps brings its worker closer to its end,
so it does not matter which is taken. In `Tenancy` the time-out of the pool is among them,
since it does come; in `Delivery` neither failures nor deaths are, since they need not.

The passing runs other than `tokens` set `CHECK_DEADLOCK FALSE`: their histories are bounded,
so a run is over when all requests, moves and faults are used up. That nobody is stuck
before is what `RequestsFinish`, `TabsSettle`, `WorkersEnd`, `ShownIsJoined` and `JobsEnd` say.

### Mutants

Each module holds, next to the definition they would replace, the operators marked
"a mistake": the definition with a plausible bug (the counter read and then
written back, the whole row written back, an update that does not revoke, an
event made of the stale row). `PROJECT.json` names for each property a mutant that
makes it fail under the very run that checks it.

## Proofs

`tlapm` proves the theorems below for all values of the constants that satisfy the
assumptions of the modules: `UnreliableAssumption`, `SessionAssumption`, `IssuesAssumption`,
`MembersAssumption`, `BaseAssumption` and `NoneAssumption` (ranks), `PresenceAssumption`,
`TenancyAssumption`, `DeliveryAssumption`, `BoardAssumption`, `FilesAssumption`,
`SeedingAssumption`, `BillingAssumption`, `PagesAssumption`. They say that what stands for
"nothing" is not a value, that subsets are subsets, and that bounds are numbers: `MaxEvents`,
`MaxDeeds` and the other bounds of the runs are arbitrary, and the base of the ranks is any
from 2 on.

| Theorem | States |
|---|---|
| `TokensProofs!TypeCorrect` | `Spec => [](TypeOK /\ Carried)` |
| `TokensProofs!OneUserPerFamily` | `Spec => []FamilyHasOneUser` |
| `TokensProofs!OneHolderPerFamily` | `Spec => []SingleHolder` |
| `TokensProofs!ImplementsSessionLife` | `Spec => SessionNeverReturns` |
| `SessionProofs!SessionsUseTheStore` | `SessionSpec => Spec` |
| `SessionProofs!SessionTypes` | `SessionSpec => []SessionTypeOK` |
| `SessionProofs!EndsForAReason` | `SessionSpec => []ThrownOutForAReason` |
| `SessionProofs!SignOutEndsTheSession` | `SessionSpec => []SignedOutIsOver` |
| `IssuesProofs!FreshNumbers` | `Spec => []NumbersAreFresh` |
| `IssuesProofs!NoLostUpdate` | `Spec => OnlyWrittenColumnsChange` |
| `IssuesProofs!LocksHold` | `Spec => []IInv` |
| `IssuesProofs!BoardsFollow` | `Spec => []BoardInSync` |
| `IssuesProofs!TypesHold` | `Spec => []TInv` |
| `IssuesProofs!TypesAreOK` | `Spec => []TypeOK` |
| `IssuesProofs!RanksAlwaysFit` | `Spec => RanksFit` |
| `MembersProofs!LocksHold` | `Spec => []IInv` |
| `MembersProofs!TypesHold` | `Spec => []TypeOK` |
| `MembersProofs!LinksAreSpent` | `Spec => []UsedLinkIsSpent` |
| `MembersProofs!CheckedIsWritten` | `Spec => ActsOnWhatItChecked` |
| `MembersProofs!OwnersStay` | `Spec => OwnersOnlyInvitedAway` |
| `RankProofs!RankBetweenIsARank` | for any two bounds, `RankBetween(a, b) \in Ranks` |
| `RankProofs!StrictlyBetween` | for two ranks in order, or an open end, `RankBetween(a, b)` is a rank strictly between them |
| `PresenceProofs!RostersAreKept` | `PresenceSpec => []PresenceInv` |
| `PresenceProofs!NobodyMissing` | `PresenceSpec => []NobodyIsMissing` |
| `PresenceProofs!GhostsExplained` | `PresenceSpec => []GhostsWereOvertaken` |
| `PresenceProofs!ListsFollow` | `PresenceSpec => []ListFollowsRoster` |
| `ServicesProofs!LoansAreKept` | `TenancySpec => []TenancyInv` |
| `ServicesProofs!TenantsAreApart` | `TenancySpec => []StaysInside` |
| `ServicesProofs!PlainIsUnscoped` | `TenancySpec => []PlainSeesAll` |
| `ServicesProofs!NotificationsAreKept` | `DeliverySpec => []DeliveryInv` |
| `ServicesProofs!DeliveryTypesHold` | `DeliverySpec => []DeliveryTypeOK` |
| `ServicesProofs!NobodyIsToldTwice` | `DeliverySpec => []ToldOnce` |
| `ServicesProofs!AssigneesAreTold` | `DeliverySpec => []AssigneeIsTold` |
| `ServicesProofs!ServicesAreServices` | `ServicesSpec => PresenceSpec /\ TenancySpec /\ DeliverySpec` |
| `ServicesProofs!ServicesKeepTheirTypes` | `ServicesSpec => []ServicesTypeOK` |
| `BoardProofs!FilesStayTogether` | `FilesSpec => []FilesInv` |
| `BoardProofs!ListedHaveObjects` | `FilesSpec => []ListedCanBeFetched` |
| `BoardProofs!OrphansAreKnown` | `FilesSpec => []NoOtherOrphans` |
| `BoardProofs!NumbersStayApart` | `SeedingSpec => []SeedingInv` |
| `BoardProofs!OnlySeedingClashes` | `SeedingSpec => []ClashNeedsSeed` |
| `BoardProofs!SeededStaySeeded` | `SeedingSpec => []SeedNumbersAreSeeds` |
| `BoardProofs!EventsAreAccountedFor` | `BillingSpec => []BillingInv` |
| `BoardProofs!UnmatchedAreReplaced` | `BillingSpec => []UnmatchedWasReplaced` |
| `BoardProofs!RowFollows` | `BillingSpec => []RowFollowsStripe` |
| `BoardProofs!RanksAscend` | `Spec => []InOrder` |
| `BoardProofs!RanksAreRanks` | `Spec => []TypeOK` |
| `BoardProofs!CacheIsKept` | `BoardSpec => []CacheInv` |
| `BoardProofs!CacheTypesHold` | `BoardSpec => []BoardTypeOK` |
| `BoardProofs!BoardsConverge` | `BoardSpec => []Converges` |
| `BoardProofs!SettledBoardsAreRefetched` | `BoardSpec => []SettledIsRefetched` |
| `BoardProofs!PagesAreKept` | `PagesSpec => []PagesInv` |
| `BoardProofs!NobodySeesOthersData` | `PagesSpec => []NobodyElsesData` |
| `BoardProofs!ChangesShow` | `PagesSpec => []OwnChangesShow` |
| `BoardProofs!PartsAreParts` | `PartsSpec => BoardSpec /\ Spec /\ FilesSpec /\ SeedingSpec /\ BillingSpec /\ PagesSpec` |
| `BoardProofs!PartsKeepTheirTypes` | `PartsSpec => []PartsTypeOK` |

**Tokens.** `TypeOK` is not enough on its own: that `Consume` touches a stored row, and
that `CreateRefresh` mints for the right user, follow from `Carried`, which ties
what a handler carries to the row it looked up. Rows are never deleted and never
change owner (`RowsAreKept`), which is what keeps `Carried` true while others work.
`FamilyHasOneUser` and `SingleHolder` are inductive relative to it. For the
refinement, each step is shown to leave every family's phase alone, or to begin or
finish exactly one (`LifeStep`); the crux is `OverStaysOver`: a family with no live
token and no holder stays so, since only an insert makes a token live and only a
holder inserts.

**Session.** `SessionsUseTheStore` shows that a step of the browser is a step of `Tokens` or
leaves the store alone, so the theorems about the store hold here. `Rotates` is the invariant
behind `EndsForAReason`: as long as a family is not excused (`Clean`), at most one refresh
carries a given token of it (`OnePresents`), the cookie is unrevoked or its successor is
already minted and on its way (`CookieIsFresh`), an answer's token is nowhere else
(`ResultsAreNew`), and what is still on the wire is unrevoked (`WireIsGood`). A handler that
finds a revoked token then has an excused family (`RevokesExcused`), which is the property one
step earlier. It needs `OnePerTab`, the single flight of `api.ts`. Behind
`SignOutEndsTheSession` is `SigningOut`: a refresh and a sign-out of one family that are under
way together are noted (`Crossing`); if none is, what the sign-out has done is the end of every
token of the family (`DoneIsRevoked`), and after its answer neither the cookie nor a request
has one of them (`LeftIsOver`). `NewFamilies` excludes that a login's family is an old one.

**Issues.** `IInv` says what each open transaction holds: a row version that agrees
with the committed row wherever its statement set nothing (`WriteOK`), a number one
above the counter (`RequestOK`), at most one open create (`OneCreate`) and at most one
writer of an issue (`OneWriter`). `OneWriter` is the strengthening that makes the rest
inductive: without it a commit by another request would invalidate `WriteOK`. All
steps but `Commit` change one request's entries only. They are shown to be `Quiet`,
and `QuietKeepsInv` is proved once for all of them; `CommitKeepsInv` is the only
other case. `NoLostUpdate` follows, as only a commit changes `issue`.

`BoardsFollow` adds `SyncInv`: for each issue, either every announced change is committed and
the board shows the stored row, or one announced change is still open and the board shows the
version it holds, or one was rolled back (`InStep`). Two steps change the case: an event
(which `OneWriter` allows to one request at a time, and whose row is the committed one with what
the statement sets, `VersionOK`) and the end of its transaction. `TInv` types what a request
carries by its operation. Its core is that all ranks anywhere, stored, pending, read or on a
board, are in `Ranks`; for the seeded column, whose ranks are defined recursively, by a least
counterexample (`EveryStartExists`). `RanksAlwaysFit` then is `StrictlyBetween`, for the
neighbours that were read, not for those that are there now.

**Ranks.** `StrictlyBetween` has three parts. The loop ends: at the first position behind both
bounds there is room, so the first position with room exists (`RankBetweenIsARank`, which also
gives a last digit above the lower one, hence not zero). The result is above `a`: it copies
a's digits up to its last, which is greater, or goes on where `a` has ended. It is below `b`:
before the last position each digit is b's or the bound has been left for good (`UpperOpen`),
and at the last one it is less. That `b` does not end in zero excludes a `b` that is `a`
followed by zeros, below which there would be no room. `RanksAscend` needs it at one gap only: the
rest of the column is as it was (`InsertedAt`, `RemovedAt`).

**Members.** The same division into quiet steps and `Commit`. Its `IInv` says for each
request which statements its operation has (`Labels`) and what it may still assume of
the row it read (`StartedOK`): while it holds the membership, the row is the one it
read; before, if the row it read is still there, it is no owner's. `OneHolder` keeps
this true while others commit. `LinkOK` says that the tokens requests have read are
of committed invitations, so that the token of an open one is new to all of them;
without it a re-invitation could reopen a used link. That `pc` and `tx` are
functions is carried separately (`Functions`), as `IInv` only speaks of their values.

**Tenancy.** `StaysInside` speaks of history, so the invariant has to say what a connection's
setting can be. `SetWhileLent`: it is the organization of the handler that has the
connection for its transaction, once that has been set, and unset or empty on every
connection that is nobody's transaction. `OneEach` (a worker has one connection per use)
keeps the first half true when a connection is lent; `CloseKeepsIt` is the step both a
commit and a time-out share, and where the second half comes from.

**Delivery.** `CommentOK`: who is told has one job per comment, is never its author, and is
queued only once it has been taken from the list of those to tell. `JobOK` counts: an attempt
that has stored its row and ended otherwise is noted (`repeated`), so rows are at most one
more, and exactly not more while the job is not there yet; likewise mails and `lateDeath`.
`AssigneeKnown` follows the assignee from the read through the list to the queue, as long as
he does not change after the watchers were read.

**Presence.** `NobodyIsMissing` compares a counter with the size of a set, so each step shows how
both change: entering a room adds a socket that may be counted already (`EnteringCounts`),
leaving removes one that was counted at least once (`LeavingCounts`). That the count is exact
unless a connection is spoiled (`CountsAreExact`) needs that nobody joins twice, which is not a
matter of the gateway: `InTurn` says that joins and leaves of a board alternate in what a tab
sends, counting what the server has taken already (`Holds`) and what the tab shows now. The
effect keeps it by leaving before it joins (`ByeSettles`), and `Orderly` is what it gives the
server. `GhostsWereOvertaken` follows, as then only open connections are in rooms.

For `ListsFollow`, `Heard` says what a list will be when the events on their way have been
applied, and two lemmas say how it changes at either end of the channel: `HeardFirst` (the tab
applies one: nothing changes) and `HeardMore` (the gateway sends one: it is applied to the
outcome). A settled tab is told of every change of its roster in the step that makes it; a tab
that settles in a step does so by its own join, which sends it the whole roster. That no other
message can settle it is `LastIsJoin`: what a tab sends last is the join of the board it shows.

**Attachments.** `HeldIsListed` says that whoever has deleted a row, and whose transaction is
still open, holds it alone and everybody else still sees it; `UploadsInOrder` that an object
precedes its row. Without the first a second removal could empty the bucket under a listed row
without a trace; without the second a confirmation could list what was never put. A removal
that was rolled back under its handler (`"late"`) holds nothing: when it has the object deleted
after all, another may hold the row, the row may be listed, or be gone, and `undone` notes it
in each case.

**Seeding.** `DrawnOnce` is the core: as long as nothing was set back and nobody was early, a
number in use is a seeded one or at most the counter, and the numbers ticks hold are below
the counter, free, and different. It needs `OneCreator` (the holder of the project's row has
drawn the counter's successor) and `CounterIsPast` (once some run has set it, the counter is at
the seeded issues or above). Neither a run that is started nor one that dies changes `counted`,
which is why it, and not whether a run is under way, is what the invariant speaks of.

**Billing.** `NoneIsLost` accounts for every event: due, being handled, of an overwritten
customer, or not newer than what was written. With `RowIsLastWritten` it yields `RowFollowsStripe`
once nothing is due and the customer of the subscription stands: the newest event is then the
one written last. `Told` is about Stripe
(numbered events, the last of a cancelled subscription is `deleted`), `CustomersAreStored`
that nobody can pay as a customer the row never had.

**BoardCache.** `Converges` speaks of quiet moments, so `CacheInv` has to say what the list is
in between. `Agrees(r, n, c, ops)`: a row of a list that reflects the first `n` changes differs
from the server's newest only in what a later event will put right, or in what an own mutation
that is being awaited (`Awaited`) has set and the server has not done yet. `TablesAgree` says
this of the server's own past, so an answer is as good as it is old; `CacheAgrees` of the list,
unless it has a gap (an event came before the first answer, was missed or misled, an answer
or a snapshot overtook one, or the answer was cut) or a mutation is about to be rolled back
(`Doomed`: it was refused, or its change is void). A void change is never what a later one has
to put right (`Later`), and no table has it, so ending it changes none. When all is heard
and nothing awaited, nothing is left to differ. `Refetched` is the half about the query after a
mutation: it is in flight, has failed, is owed by a mutation that is still pending, or has
brought what was asked for; `Recorded` ties the changes in the log to the calls that made them.

**Pages.** `EntryIsGood` says of an entry that is shown and not on its way to being replaced
that it is this account's and lacks only what no hook refreshes or what a mutation now ending
will (`Coming`); `AnswerIsGood` says it of the answer in flight, unless it was shared from
before. An optimistic patch suspends the first (`Patching`), since the mutation that made it
invalidates the entry when it ends. `OutIsBlank` and `WasOffered` exclude mutations that
belong to no page.

**Compositions.** In `MCServices` and `MCBoard` a step is one of the part that was chosen and
leaves the others' variables alone, so it is a step or a stutter of each (`PartsAreParts`,
`ServicesAreServices`), from which the types of all parts follow at once.

Every safety invariant and every action property that a passing run checks has a theorem.
Model-checked only:

* liveness (`RequestsFinish`, `TabsSettle`, `ShownIsJoined`, `WorkersEnd`, `JobsEnd`): it needs
  `ENABLED` and fairness, which is beyond the prover;
* the six violations under Findings, which are counterexamples and need no proof.

## Findings

Six statements of the repository's comments and documents do not hold of the
code; each has a run of its own, above, and an entry in `PROJECT.json`:
single-use tokens and revoked families (`token.service.ts`), a drop in every gap
(`issues.service.ts:200`), events only after a successful write
(`issues.service.ts:257`), telling the new assignee (`issues.service.ts:263`), and
one-time links (`orgs.service.ts:304`).

## Not modelled

* Marketing and static pages, shared UI, styles and wording. They are a large part of
  `apps/web` and have no state that another actor can disturb.
* What the dashboard, the activity feed and the search compute: they read, and `Pages`
  has what they read of.
* The permission matrix beyond who may manage members, and validation of inputs.
* `Redis` between several API nodes: rosters are per process (`realtime.gateway.ts:55`), so
  with two nodes they would disagree; `Presence` is about one.
* Demo ticks that comment or advance an issue (single rows, no counter, no event), and the
  parts of the seed script that write what nothing else writes.
* Changes by others on pages other than the board: they are seen at the next query, and no
  code promises more.
* A drop on an empty column, which the board ignores before it sends anything.
* A presigned URL that is used again after the file was removed, and the superuser of
  development, whom no policy binds.

## Plan

Proofs: a lemma behind each liveness property, as far as it is safety (that a request that
goes on comes closer to its end: a measure that decreases), and the converse of the named
causes, that the properties' exceptions are reached only through them. Modules: a second API
node for `Presence`, were the adapter to be relied upon for rosters; events for the pages
that have none, should they get any.
