SPECIFICATION SpecAny
CONSTANTS
    h1 = h1
    h2 = h2
    k1 = k1
    k2 = k2
    Calls <- MCCalls
    Jobs <- MCJobs
    Hosts = {h1, h2}
    ServerErrorLimit = 2
    MaxPieces = 2
    NoFile = NoFile
    NoHost = NoHost
    NoSig = NoSig
    Requests <- MCRequests
INVARIANTS
    EndsIdle
    
    NoErrorPages
    
PROPERTIES
    NoFileLost
    CallsEnd
CHECK_DEADLOCK FALSE
