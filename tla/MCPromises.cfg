SPECIFICATION FairSpec
CONSTANTS
  MaxPromises = 7
  MaxResolvers = 4
  Scripts <- TheScripts
  Passed = {1, 2}
  Reasons = {"e"}
INVARIANTS
  AllAnswersItsItems
  AllSettlesWithItsItems
PROPERTIES
  KeepsItsPromises
  HandlersAreCalled
CHECK_DEADLOCK FALSE
