SPECIFICATION Spec
CONSTANTS
    Lines <- MCLines
    MaxTokens = 6
    MaxPresses = 2
    Inputs = {"terminal", "pipe"}
CHECK_DEADLOCK FALSE
INVARIANTS StatementsRunOnce TextsRunAsGiven HistoryIsLatest SeedsReproduce InterruptsEndTheirEntry
PROPERTY CtrlCReturns
