SPECIFICATION FairSpec
CONSTANTS
    MaxKills = 2
    MaxPrints = 2
    MaxRuns = 3
INVARIANTS
    TypeOK
    SwitchTakesEffect
PROPERTY
    SwitchEnds
CHECK_DEADLOCK FALSE
