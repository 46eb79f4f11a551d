SPECIFICATION Spec
CONSTANTS
    QueueLen = 3
    ShutdownUnblocksRecv = FALSE
INVARIANTS
    TypeOK
    ThreadWithinMonitor
PROPERTIES
    AddressReported
    StopReturnsOnTraffic
