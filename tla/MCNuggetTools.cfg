SPECIFICATION Spec
CONSTANTS
    WaitSeconds = 2
    ReplyLens = {0, 1, 6}
    Garbage = {0}
    MaxTime = 3
    MaxResets = 2
    MaxSleeps = 2
    MaxOps = 1
INVARIANTS
    RebootVerdictSound
    WaitVerdictExact
    WipeVerdictSound
CONSTRAINT Explored
CHECK_DEADLOCK FALSE
