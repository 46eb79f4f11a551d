SPECIFICATION Spec
CONSTANTS
    Starts = {c1}
    Stops = {s1}
    Keys = {k1}
    SendKeys = {}
    None = None
CHECK_DEADLOCK FALSE
PROPERTY
    StopEndsTheJob
