SPECIFICATION ProcessSpec
CHECK_DEADLOCK FALSE
CONSTANTS
    PermLimit = 2
    IdLimit = 3
    MaxRoots = 2
    ModeArgs = {0, 1, 2, 3}
    IdArgs = {0, 1, 2, 3}
    Letters = {"a", "."}
    MaxPattern = 3
    MaxName = 3
    MaxDepth = 2
INVARIANT ReleasesAll
INVARIANT RunsAsConfigured
INVARIANT ExitTells
INVARIANT Enforced
INVARIANT PruningIsIgnoring
INVARIANT PlumbingIgnored

