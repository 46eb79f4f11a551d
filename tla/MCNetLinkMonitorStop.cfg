SPECIFICATION Spec
CONSTANTS
    QueueLen = 1
    ShutdownUnblocksRecv = FALSE
PROPERTY
    StopUnblocksRecv
