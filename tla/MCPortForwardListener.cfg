SPECIFICATION FairSpec
CONSTANTS
    MuxEnabled = TRUE
    MaxAccepts = 4
    MaxCommands = 2
INVARIANTS MuxedIsServed OneTunnel
PROPERTIES BrokenIsReset ListenerEndsTunnel
CHECK_DEADLOCK FALSE
