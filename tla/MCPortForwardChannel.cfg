SPECIFICATION Spec
CONSTANTS
    INITIAL_WINDOW = 3
    MIN_FRAME_CHARGE = 2
    CHANNEL_WINDOW = 7
    MAX_FRAME = 4
    DATA_QUEUE_FRAMES = 1
    Scenarios <- OneDirection
INVARIANTS InOrder NothingAfterClose CloseOnce NoLostWakeup
PROPERTIES ImplementsCreditFlow
CHECK_DEADLOCK FALSE
