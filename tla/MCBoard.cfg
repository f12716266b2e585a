\* Cache: two cards, two mutations of this browser, one change by others and
\* one fault, three of these in all; one label, a list of one row, and others
\* create cards in the first place only.
\* Column: four digits; ranks of up to four of them, three cards at a time.
\* Files: two uploads, two removals.  Numbers: two creations, one tick, two seeds.
\* Billing: two checkouts, two handlers, two events each, one repeated delivery, a
\* price that is configured and one that is not.
\* Pages: every query, two accounts, two of mutation, sign-in and mishap.
CONSTANTS
  Cards = {c1, c2}
  Seeded = {c1}
  Places = {p1, p2}
  Texts = {x1, x2}
  Labels = {Unlabelled, b1}
  Unlabelled = Unlabelled
  Limit = 1
  NewRows <- Created
  p1 = p1
  x1 = x1
  Mutations = {m1, m2}
  MaxOthers = 1
  MaxFaults = 1
  MaxTogether = 3
  Absent = Absent
  Base = 4
  None = None
  MaxCards = 3
  MaxLen = 4
  Uploads = {a1, a2}
  Removals = {r1, r2}
  Nobody = Nobody
  Creates = {q1, q2}
  Ticks = {k1}
  Seeds = 2
  MaxRuns = 2
  MaxNumber = 5
  Checkouts = {s1, s2}
  Handlers = {h1, h2}
  Prices <- Configured
  MaxEvents = 2
  MaxRepeats = 1
  Missing = Missing
  Accounts = {w1, w2}
  NoAccount = NoAccount
  MaxDeeds = 2
SYMMETRY Interchangeable
SPECIFICATION PartsSpec
CHECK_DEADLOCK FALSE
INVARIANTS PartsTypeOK Converges SettledIsRefetched InOrder
INVARIANTS ListedCanBeFetched NoOtherOrphans ClashNeedsSeed
INVARIANTS RowFollowsStripe OwnChangesShow NobodyElsesData
