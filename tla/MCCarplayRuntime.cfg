SPECIFICATION Spec
CONSTANTS
    Devices = {d1, d2}
    None = None
    Capacity <- MCCapacity
    Limit <- MCLimit
    Total = 3
CHECK_DEADLOCK FALSE
INVARIANTS
    TypeOK
    LinkBeforeTraffic
    HandlersBeforeSession
PROPERTIES
    FlowsOnlyLose
    BondStartsRfcomm
    ConfigurationStartsSession
