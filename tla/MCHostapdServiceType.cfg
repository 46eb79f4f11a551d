SPECIFICATION Spec
CONSTANTS
    r1 = r1
    Requests = {r1}
    MaxSessions = 2
    MaxUser = 3
    None = None
CHECK_DEADLOCK FALSE
INVARIANT
    OnlySupportedAnnounced
