CONSTANTS
    Pkgs = {a, b}
    Versions = {v1, v2}
    None = None
    Mixed = Mixed
    Flags = {"NOLOCK", "DOWNLOADONLY"}
    MaxTargets = 2
    MaxFaults = 1
    MaxCrashes = 1
SPECIFICATION Spec
INVARIANTS
    InterruptIsClean
    TouchesPrefixOnly
    CrashTearsOne
SYMMETRY Symmetry
