CONSTANTS
    Pkgs = {a, b}
    Versions = {v1}
    None = None
    Mixed = Mixed
    Flags = {"DBONLY", "NOHOOKS"}
    MaxTargets = 2
    MaxFaults = 1
    MaxCrashes = 0
SPECIFICATION FairSpec

    
PROPERTIES
    CommitEnds
