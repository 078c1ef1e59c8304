SPECIFICATION FairSpec
CONSTANTS
  answerHangup = answerHangup
  Bots = {b1, b2}
  script <- OneBehaviour
  BaseScript = run
  NoBot = NoBot
  FrontEnds = {console, network}
  Root = Root
INVARIANTS
  HookReachesEveryBot
PROPERTIES
  EventsAfterStartAreHeard
  StartupCompletes
CHECK_DEADLOCK FALSE
