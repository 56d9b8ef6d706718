SPECIFICATION Spec
CONSTANTS
    v1 = v1
    err = err
    Vars <- MCVars
    Vals <- MCVals
    ErrObject = err
    Undef = Undef
    MaxFrames = 3
    MaxTries = 1
    MaxRefs = 2
    Programs = {{"params"}}
INVARIANT NoVariableLost
