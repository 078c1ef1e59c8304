SPECIFICATION FairSpec
CONSTANTS
  Bots = {b1, b2}
  Calls = {c1}
  NoRequest = NoRequest
  Idle = Idle
  MaxPending = 2
  MaxCopies = 2
INVARIANTS
  LiveCallIsStored
  HungUpCallIsForgotten
PROPERTIES
  AcceptTakesEffect
  HungUpCallIsCleaned
  PlacedCallIsStored
CHECK_DEADLOCK FALSE
