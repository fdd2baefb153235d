SPECIFICATION FairSpec
CONSTANTS
    MuxEnabled = TRUE
    MaxAccepts = 2
    MaxCommands = 1
PROPERTIES RemovalCloses
CHECK_DEADLOCK FALSE
