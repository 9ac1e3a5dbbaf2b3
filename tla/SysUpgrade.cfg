CONSTANTS
    Locals <- Installed
    Repos <- TwoRepos
    IgnoredSets = {{}, {2}}
SPECIFICATION Spec
INVARIANTS
    TargetsWellFormed
CHECK_DEADLOCK FALSE
