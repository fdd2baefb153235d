SPECIFICATION EvictionSpec
CONSTANTS
    Conns = {c1, c2, c3}
    Addrs = {a1, a2, a3}
    MAX_UNAUTHORIZED_CONNS = 2
    MAX_UNAUTHORIZED_CONNS_PER_ADDR = 1
    None = None
INVARIANTS LiveBound ShareBound OneOnItsWay
PROPERTIES EvictedGoes GraceEnds
\* The model ends when every connection has come and gone.
CHECK_DEADLOCK FALSE
