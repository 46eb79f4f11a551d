SPECIFICATION Spec
CONSTANTS
    r1 = r1
    r2 = r2
    Requests = {r1, r2}
    MaxSessions = 3
    MaxUser = 1
    None = None
CHECK_DEADLOCK FALSE
INVARIANTS
    TypeOK
    JobFollowsAp
    RestartsLeaveApUp
    CallbackStillToCome
PROPERTIES
    AddressAnnounced
