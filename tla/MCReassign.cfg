CONSTANTS
  i1 = i1  i2 = i2  u1 = u1  u2 = u2  todo = todo
  Issues     = {i1}
  Statuses   = {todo}
  Users      = {u1, u2}
  Actors     = {u1, u2}
  Requests   = {r1, r2, r3}
  Unreliable = {}
  Seed       <- OneCard
  SeedStatus = todo
  SeedUser   = u1
  Ops        = {"update"}
  MaxOpen    = 2
  Filtered   = FALSE
  Base       = 4
  None       = None
SPECIFICATION FairSpec
SYMMETRY Interchangeable
PROPERTY NewAssigneeIsTold
CHECK_DEADLOCK FALSE
