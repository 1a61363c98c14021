SPECIFICATION FairSpec
CONSTANTS
    DataLen <- MCDataLen
    RequestLen <- MCRequestLen
    ENCODER_MAX_LEN = 3
    PROTO_BUFFER_MAX_LEN = 6
    Timeout = 0
    MaxFaults = 1
    MaxCalls = 3
    MaxPrinted = 1
INVARIANTS
    TypeOK
    InOrderOnce
    WireExact
    OverflowReportedOnce
PROPERTIES
    IntactFrameReturned
    ImplementsChannel
    CallsReturn
ACTION_CONSTRAINTS
    QueueBound
    DisturbanceBound
CHECK_DEADLOCK FALSE
