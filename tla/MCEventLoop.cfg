SPECIFICATION FairSpec
CONSTANTS
  Timers = {t1, t2}
  Flushes = {f1}
  Clears = {c1}
  NoTimer = NoTimer
  MaxMains = 2
INVARIANTS
  PartiesAreOutstanding
  MainWaitsWhenCounted
  TimerThreadSurvives
  FlushedOnce
PROPERTIES
  FlushHappens
  MainReturnsUnlessTimedOut
CHECK_DEADLOCK FALSE
