SPECIFICATION Spec
CONSTANTS
    MaxSignals = 2
    MaxLost = 2
INVARIANTS
    StressEnds
CHECK_DEADLOCK FALSE
