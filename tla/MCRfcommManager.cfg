SPECIFICATION Spec
CONSTANTS
    Starts = {c1, c2}
    Stops = {s1, s2}
    Keys = {k1, k2}
    SendKeys = {k1}
    None = None
CHECK_DEADLOCK FALSE
INVARIANTS
    TypeOK
    NoOrphanReadLoop
    StopIsClean
    LookupFindsLive
PROPERTIES
    RequestsReturn
    JoinEndsOnTraffic
