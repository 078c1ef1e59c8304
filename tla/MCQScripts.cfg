SPECIFICATION FairSpec
CONSTANTS
  Sources = 2
  Scripts <- TheScripts
  Notifying = {1}
  MaxDeferreds = 16
INVARIANTS
  TypeOK
  AnswersAsPromised
  SettlesWithItsInputs
  UnhandledIsUnobserved
  NoProgressAfterAnswer
  NothingIsSwallowed
PROPERTIES
  KeepsItsPromises
  QueueDrains
CHECK_DEADLOCK FALSE
