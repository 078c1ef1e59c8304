SPECIFICATION Spec
CONSTANTS
  Timers = {t1}
  Flushes = {f1}
  Clears = {}
  NoTimer = NoTimer
  MaxMains = 1
INVARIANTS
  MainWaitsForFn
CHECK_DEADLOCK FALSE
