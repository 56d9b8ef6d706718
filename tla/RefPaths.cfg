SPECIFICATION Spec
CONSTANTS
    n1 = n1
    n2 = n2
    s1 = s1
    Undef = Undef
    Vars = {1, 2}
    Ints = {n1, n2}
    Others = {s1}
    Starts <- MCStarts
    Fresh <- MCFresh
    Indices = {1, 2, 3}
    Coerced <- MCCoerced
    Places <- MCPlaces
    MaxFrames = 2
    MaxSteps = 2
    MaxRefs = 2
    Programs = {{}, {"overlap", "delete"}}

PROPERTIES ElementsGetTheirValues OthersKeepTheirs FailuresChangeNothing
