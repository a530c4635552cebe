SPECIFICATION FairSpec
CONSTANTS
  t1 = t1
  p1 = p1
  p2 = p2
  Topics = {t1}
  Procs = {p1, p2}
  Kind <- KindOf
  Failing = {}
  Reentrant = {}
  MaxRequests = 2
  MaxPushes = 2
  None = None
INVARIANTS NeverBogus
CHECK_DEADLOCK FALSE
