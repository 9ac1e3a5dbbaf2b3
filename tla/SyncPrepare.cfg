CONSTANTS
    Families <- Installations
    NoPkg = NoPkg
SPECIFICATION FairSpec
INVARIANTS
    TargetsAccounted
    
PROPERTIES
    PrepareEnds
CHECK_DEADLOCK FALSE
