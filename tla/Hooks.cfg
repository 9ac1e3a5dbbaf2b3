SPECIFICATION Spec
CONSTANTS
    HookJobs <- MCHookJobs
    FeedSize = 3
    ChrootJobs <- MCChrootJobs
    LineMax = 5
    PipeBuf = 2
    SocketSize = 2
    Downloads <- MCDownloads
    PipeSize = 2
    ConfigJobs <- MCConfigJobs
    MaxRecursion = 2
    Number <- MCNumber
    Resolve <- MCResolve
    IntMax = 7
    NoUser <- MCNoUser
    XferJobs <- MCXferJobs
    Pieces = 2
INVARIANTS
    
    TargetsExact
    
    ReportsAreChilds
    ConfigIsText
    SettingsExact
    ZeroIsSuccess
PROPERTIES
    ProcessesEnd
CHECK_DEADLOCK FALSE
