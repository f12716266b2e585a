\* Presence: two tabs, two boards, three connections, three moves.
\* Tenancy: two requests and a job on two connections; one table has no policy.
\* Delivery: one comment, two people, one change around it.
CONSTANTS
  t1 = t1
  t2 = t2
  u1 = u1
  u2 = u2
  r1 = r1
  r2 = r2
  o1 = o1
  o2 = o2
  Tabs = {t1, t2}
  Users = {u1, u2}
  SignedIn <- Both
  Projects = {p1, p2}
  MaxSockets = 3
  MaxMoves = 3
  Nowhere = Nowhere
  Orgs = {o1, o2}
  Tenants = {r1, r2}
  SystemJobs = {j}
  OrgOf <- Admitted
  Connections = {k1, k2}
  Tables = {issues, comments}
  Policed = {issues}
  Unset = Unset
  Empty = Empty
  Free = Free
  People = {u1, u2}
  Comments = {c}
  Reporter = u1
  MaxChanges = 1
  Nobody = Nobody
SPECIFICATION ServicesSpec
CHECK_DEADLOCK FALSE
INVARIANTS ServicesTypeOK NobodyIsMissing GhostsWereOvertaken ListFollowsRoster
INVARIANTS StaysInside PlainSeesAll ToldOnce AssigneeIsTold
PROPERTIES ShownIsJoined WorkersEnd JobsEnd
