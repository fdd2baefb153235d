SPECIFICATION FairSpec

CONSTANTS
  h1 = h1
  h2 = h2
  Hosts <- TwoHosts
  None = None
  Scenarios <- OneThingWrong

PROPERTIES
  Registered
  OptionsHeeded
  ExitTogether
  DeletionNoticed
CHECK_DEADLOCK FALSE
