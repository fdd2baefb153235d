SPECIFICATION FairSpec
CONSTANTS
    Viewers = {v1, v2}
    AckRequired = {v2}
    DefersRefresh = TRUE
    MaxQueue = 1
    MaxChanges = 4
    MaxFaults = 1
INVARIANTS SameHistory
PROPERTIES RefreshServed StopsUnwatched
\* The service rests when nobody watches.
CHECK_DEADLOCK FALSE
