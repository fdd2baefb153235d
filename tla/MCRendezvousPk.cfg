SPECIFICATION FairSpec

CONSTANTS
  h1 = h1
  h2 = h2
  Hosts <- TwoHosts
  None = None
  Scenarios <- Synced

PROPERTIES
  PkRegistered
CHECK_DEADLOCK FALSE
