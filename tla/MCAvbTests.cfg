SPECIFICATION Spec
CONSTANTS
    Slots = 2
    Nonces = {1, 2, 3}
    MaxLost = 1
INVARIANTS
    NoFalseAlarm
    FaultDetected
PROPERTY
    CleanStart
