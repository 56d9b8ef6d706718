SPECIFICATION FairSpec
CONSTANTS
    f = f
    g = g
    Funs <- MCFuns
    Results = {1, 2}
    MaxDepth = 2
    Width = 4
    MaxStack = 5
    Programs = {{"load"}, {"load", "attach"}}
CHECK_DEADLOCK FALSE
INVARIANTS TypeOK NresultsOfActiveCalls LoadsKeepTrace DepthCountsActiveCalls QuitIsFinal
PROPERTIES QuitEndsSession ErrorsAreHandled
