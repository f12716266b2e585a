CONSTANTS
  i1 = i1  i2 = i2  u1 = u1  u2 = u2  todo = todo
  Issues     = {i1, i2, i3}
  Statuses   = {todo, doing}
  Users      = {u1, u2}
  Actors     = {u1, u2}
  Requests   = {r1, r2}
  Unreliable = {}
  Seed       <- TwoCards
  SeedStatus = todo
  SeedUser   = u1
  Ops        = {"create", "update"}
  MaxOpen    = 1
  Filtered   = FALSE
  Base       = 4
  None       = None
SPECIFICATION Spec
INVARIANT EveryGapTakesADrop
CHECK_DEADLOCK FALSE
