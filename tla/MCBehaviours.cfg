SPECIFICATION FairSpecB
CONSTANTS
  b1 = b1
  b2 = b2
  b3 = b3
  Bots = {b1, b2, b3}
  Calls = {c1, c2}
  NoRequest = NoRequest
  Idle = Idle
  MaxPending = 0
  MaxCopies = 0
  behaviour <- EveryBehaviour
  SharedCallIds = FALSE
INVARIANTS
  OneConversation
PROPERTIES
  AnsweredCallEnds
  RingingCallIsDecided
CHECK_DEADLOCK FALSE
