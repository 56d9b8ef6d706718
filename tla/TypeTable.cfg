SPECIFICATION TableSpec
CONSTANTS
    Builtins <- MCBuiltins
    MaxTypes = 4
    MaxVersion = 5
INVARIANTS IsaAnswersAreTrue
PROPERTY VersionFollowsIsa
CHECK_DEADLOCK FALSE
