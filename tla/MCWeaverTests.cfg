SPECIFICATION Spec
CONSTANTS
    Slots = 1
    Nonces = {1, 2}
    MaxLost = 1
    Drawn = {0, 5}
    Delays = {3, 25, 26}
INVARIANTS
    NoFalseAlarm
    FaultDetected
