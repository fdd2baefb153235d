SPECIFICATION FairSpec
CONSTANTS
    Conns = {1, 2}
    Ids = {1, 2}
    Sessions = {1, 2}
    CHANNEL_BUFFER_SIZE = 2
    RECENT = 2
    None = None
    Scenarios <- OneThingWrong
INVARIANTS NoOrphan StreamInOrder ReplayComesFirst NothingAfterClosed
PROPERTIES ExitReported
\* The client has connected for the last time and all shells have ended.
CHECK_DEADLOCK FALSE
