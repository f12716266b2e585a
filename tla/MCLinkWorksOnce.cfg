CONSTANTS
  owner = owner  bob = bob
  Users      = {owner, bob}
  Requests   = {r1, r2, r3}
  Unreliable = {}
  Asked      = {"MEMBER"}
  Starts     <- OnlyInvited
  MaxOpen    = 2
  None       = None
SPECIFICATION FairSpec
SYMMETRY Interchangeable
PROPERTY LinkWorksOnce
CHECK_DEADLOCK FALSE
