SPECIFICATION Spec
CONSTANTS
  bot = bot
  manager = manager
  agent = agent
  plugin = plugin
  Lines = {console, network}
  Webs = {web}
  Root = Root
  Default = Default
  Attachments <- TheAttachments
  Known <- TheCommands
  Help <- TheHelp
  Repeat = Repeat
  Empty = Empty
INVARIANTS
  OwnCommandWins
  ExecutesWhatWasTyped
PROPERTIES
  DeclaredCommandIsFound
CHECK_DEADLOCK FALSE
