SPECIFICATION Spec
CONSTANTS
  Names <- NamesXY
  Bound <- JustX
  Intrinsics <- JustY
  MaxTokens = 4
  MaxFunctions = 2
  MaxData = 4
  MaxMade = 2
  MaxCalls = 2
INVARIANTS ReadsSeeTheirVariable ExitsFindTheirLoop
CHECK_DEADLOCK FALSE
