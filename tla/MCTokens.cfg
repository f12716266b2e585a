\* Three handlers at a time, two families, three tokens over the whole run.
CONSTANTS
  Tokens     = {t1, t2, t3}
  Families   = {f1, f2}
  Users      = {u1, u2}
  Requests   = {r1, r2, r3}
  Unreliable = {r1, r2, r3}
  None       = None
SYMMETRY Interchangeable
SPECIFICATION Spec
INVARIANTS TypeOK FamilyHasOneUser SingleHolder
PROPERTY SessionNeverReturns
