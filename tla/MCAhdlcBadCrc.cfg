SPECIFICATION Spec
CONSTANTS
    DataLen <- MCDataLenShort
    RequestLen <- MCRequestLenShort
    ENCODER_MAX_LEN = 3
    PROTO_BUFFER_MAX_LEN = 6
    Timeout = 1
    MaxFaults = 1
    MaxCalls = 3
    MaxPrinted = 0
INVARIANTS
    BadCrcIsTransportError
CHECK_DEADLOCK FALSE
