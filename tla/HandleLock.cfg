CONSTANTS
    Procs = {p1, p2}
    NoProc = NoProc
    MaxGen = 2
    NestedUpdate = FALSE
SPECIFICATION FairSpec
INVARIANTS
    StaleLockExplained
PROPERTIES
    LockReleased
    TakesTurns
