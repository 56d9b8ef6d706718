SPECIFICATION OutputSpec
CONSTANTS
    f = f
    g = g
    Files <- MCFiles
    Stdout = Stdout
    Captured = Captured
    MaxMarks = 3
    MaxLevel = 3
    MaxStack = 5
    Programs <- MCPrograms
CHECK_DEADLOCK FALSE
INVARIANTS OneRedirection NothingTwice
PROPERTY ImplementsRedirection
