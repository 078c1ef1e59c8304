SPECIFICATION FairSpecB
CONSTANTS
  b1 = b1
  b2 = b2
  b3 = b3
  Bots = {b1, b2}
  Calls = {c1}
  NoRequest = NoRequest
  Idle = Idle
  MaxPending = 0
  MaxCopies = 0
  behaviour <- AnswerHangupOnly
  SharedCallIds = TRUE
PROPERTIES
  AnsweredCallEnds
CHECK_DEADLOCK FALSE
