CONSTANTS
  Tokens     = {t1, t2, t3}
  Families   = {f1}
  Users      = {u1}
  Requests   = {r1, r2}
  Unreliable = {}
  None       = None
SPECIFICATION Spec
INVARIANT RevokedFamilyIsDead
