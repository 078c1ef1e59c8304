SPECIFICATION FairSpec
CONSTANTS
  t1 = t1
  t2 = t2
  Timer = timer
  Threads = {t1, t2}
  Work <- TheWork
  Follows <- TheFollows
  Throwing = {"a"}
  Capacity = 1
INVARIANTS
  CalledAtMostOnce
  ServedInOrder
PROPERTIES
  EveryTaskIsCalled
CHECK_DEADLOCK FALSE
