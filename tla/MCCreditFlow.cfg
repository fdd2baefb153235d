SPECIFICATION Spec
CONSTANTS
    INITIAL_WINDOW = 3
    MIN_FRAME_CHARGE = 2
    CHANNEL_WINDOW = 7
    MAX_FRAME = 4
INVARIANTS WindowConserved NoOverrun BufferBounded NoStall
CHECK_DEADLOCK FALSE
