CONSTANTS
    Families <- Removals
    Pkgs <- Four
    NoPkg = NoPkg
    EdgeSets <- Relations
    TargetLists <- FirstFew
    LocalLists <- Installed
SPECIFICATION Spec
INVARIANTS
    NothingBroken
    SelectionExact
    SortedByDeps
PROPERTIES
    PrepareEnds
CHECK_DEADLOCK FALSE
