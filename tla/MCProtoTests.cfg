SPECIFICATION Spec
CONSTANTS
    Request <- MCRequest
    KeySizes <- MCKeySizes
    Repeats = 2
    Vectors = 2
    MaxLate = 2
    MaxDrop = 2
    MaxLost = 1
INVARIANTS
    NoFalseAlarm
    StaleReplyIsNoticed
    FaultDetected
