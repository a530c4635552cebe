SPECIFICATION FairSpec
CONSTANTS
  t1 = t1
  p1 = p1
  p2 = p2
  Topics = {t1}
  Procs = {p1, p2}
  Kind <- KindOf
  Failing = {p1, p2}
  Reentrant = {p1}
  MaxRequests = 3
  MaxPushes = 2
  None = None
INVARIANTS TypeOK CallbacksMatch CrashesOnlyWhileLeaving SpoilsAtMostOne
PROPERTIES OnlyYieldsAfterGoodbye LeaveEnds
CHECK_DEADLOCK FALSE
