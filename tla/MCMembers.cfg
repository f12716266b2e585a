\* Two people, three requests of which two overlap and one may time out or die.
CONSTANTS
  owner = owner  bob = bob
  Users      = {owner, bob}
  Requests   = {r1, r2, r3}
  Unreliable = {r1}
  Asked      = {"OWNER", "MEMBER"}
  Starts     <- MemberOrInvited
  MaxOpen    = 2
  None       = None
SPECIFICATION FairSpec
INVARIANTS TypeOK UsedLinkIsSpent
PROPERTIES OwnersOnlyInvitedAway ActsOnWhatItChecked RequestsFinish
CHECK_DEADLOCK FALSE
