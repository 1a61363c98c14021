SPECIFICATION Spec
CONSTANTS
    Slots = 1
    Nonces = {1, 2}
    KM_MNF_MAX_ENTRY_SIZE = 64
    MaxLost = 1
    CommandLines <- MCCommandLines
INVARIANTS
    SetUpMakesReady
    NoFalseAlarm
    FaultDetected
    OverreadIsReported
    RunsWhereItSays
    FilterExact
CHECK_DEADLOCK FALSE
