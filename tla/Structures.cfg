SPECIFICATION SpecAny
CONSTANTS
    MaxNodes = 5
    MaxSecond = 2
    Items <- MCItems
    Pkgs <- MCPkgs
    NameHashes <- MCNameHashes
    PrimeList <- MCPrimeList
    Sizes = {0, 2}
    Versions <- MCVersions
    FileLists <- MCFileLists
    SpaceTasks <- MCSpaceTasks
    TwentyMiB = 5
INVARIANTS
    ListsSound
    TableSound
    VersionsOrdered
    FileListsExact
    
CHECK_DEADLOCK FALSE
