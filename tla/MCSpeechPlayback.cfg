SPECIFICATION SpecS
CONSTANTS
  Bots = {b1}
  Calls = {c1, c2}
  NoRequest = NoRequest
  Idle = Idle
  Nothing = Nothing
  Chunks = 2
  MaxPending = 0
  MaxCopies = 0
  behaviour <- AnswerHangupOnly
  SharedCallIds = FALSE
INVARIANTS
  SaidAsAsked
  FileIsDeleted
PROPERTIES
  SentInItsCall
CHECK_DEADLOCK FALSE
SYMMETRY Symmetry
