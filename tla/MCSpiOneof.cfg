SPECIFICATION Spec
CONSTANTS
    PROTO_BUFFER_MAX_LEN = 4
    Sizes = {0, 2, 3}
    MaxSends = 3
    MaxGets = 3
INVARIANT
    MessageFits
CHECK_DEADLOCK FALSE
