\* Two collectors, two threads, one department, one user; no symmetry (liveness).
SPECIFICATION FairSpec
CONSTANTS
  Collector = {c1, c2}
  Thread = {t1, t2}
  DeptId = {1}
  g1 = g1
  AllUser = AllUser
  Excluded = Excluded
  Group <- MCGroup
  Server = {s1}
  User = {u1}
  NoDept = NoDept
  NoUser = NoUser
  MaxEvents = 4
INVARIANTS TypeOK SelectionsAreKept DuplicatesNeedARace PromotionSticks
PROPERTY GroupGetsDepartment
\* Users owe nobody a request, and the bound on events stops them.
CHECK_DEADLOCK FALSE
