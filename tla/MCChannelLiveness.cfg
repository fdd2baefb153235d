SPECIFICATION FairSpec
CONSTANTS
    INITIAL_WINDOW = 2
    MIN_FRAME_CHARGE = 2
    CHANNEL_WINDOW = 4
    MAX_FRAME = 2
    DATA_QUEUE_FRAMES = 1
    Scenarios <- BothOrEnding
PROPERTIES EndsTogether TunnelEndsTasks CreditReturns
CHECK_DEADLOCK FALSE
