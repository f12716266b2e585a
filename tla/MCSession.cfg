\* Two tabs, two handlers (one of which may die), four tokens in two families, one
\* mishap: a page load, a broken connection or a dead handler.
CONSTANTS
  Tokens = {t1, t2, t3, t4}
  Families = {f1, f2}
  Users = {u1}
  Requests = {r1, r2}
  Unreliable = {r1}
  None = None
  Tabs = {a, b}
  MaxMishaps = 1
SPECIFICATION SessionFairSpec
CHECK_DEADLOCK FALSE
INVARIANTS SessionTypeOK ThrownOutForAReason SignedOutIsOver
PROPERTIES TabsSettle
