CONSTANTS
    Families <- Losing
    NoPkg = NoPkg
SPECIFICATION Spec
INVARIANTS
    DataFitsError
CHECK_DEADLOCK FALSE
