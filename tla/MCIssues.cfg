\* Two requests, one of which may time out or die; no symmetry, as the run
\* checks liveness too.
CONSTANTS
  i1 = i1  i2 = i2  u1 = u1  u2 = u2  todo = todo
  Issues     = {i1, i2, i3, i4}
  Statuses   = {todo, doing}
  Users      = {u1, u2}
  Actors     = {u1}
  Requests   = {r1, r2}
  Unreliable = {r1}
  Seed       <- TwoCards
  SeedStatus = todo
  SeedUser   = u2
  Ops        <- AllOps
  MaxOpen    = 2
  Filtered   = FALSE
  Base       = 4
  None       = None
SPECIFICATION FairSpec
INVARIANTS TypeOK NumbersAreFresh BoardInSync
PROPERTIES OnlyWrittenColumnsChange RanksFit RequestsFinish
CHECK_DEADLOCK FALSE
