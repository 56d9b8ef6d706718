SPECIFICATION Spec
CONSTANTS
    file1 = file1
    file2 = file2
    f = f
    none = none
    x = x
    y = y
    Undef = Undef
    Builtins <- MCBuiltins
    MaxTypes = 5
    Sites = {1}
    Calls <- MCCalls
    Natives <- MCNatives
    Shapes <- MCShapesSeq
    Files = {file1}
    Declares <- MCDeclares
    SeqEnum <- MCSeqEnum
    KeyArgs = 2
    MaxCounter = 5
INVARIANTS SitesRememberTheChoice ChoiceIsMostSpecific LaterDefinitionsWin
CHECK_DEADLOCK FALSE
