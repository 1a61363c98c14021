SPECIFICATION FairSpec
CONSTANTS
    MaxHarness = 3
    Fds = {3, 4, 5}
    PrintUart = TRUE
INVARIANTS
    TypeOK
    NoUseAfterFree
    ReadsOwnTty
    NoLeak
PROPERTIES
    DestructorEnds
CHECK_DEADLOCK FALSE
