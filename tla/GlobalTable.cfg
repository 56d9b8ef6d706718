SPECIFICATION Spec
CONSTANTS
    w = w
    x = x
    y = y
    z = z
    s1 = s1
    s2 = s2
    a1 = a1
    Names <- MCNames
    Structs <- MCStructs
    Aggs <- MCAggs
    Plain = Plain
    Undef = Undef
    Absent = Absent
    NoName = NoName
    Scripts <- MCScripts
SYMMETRY Symmetries
INVARIANTS SlotsOK GlobalsKeepSlots AssignmentsKeepNames AliasesAreOtherHolders
