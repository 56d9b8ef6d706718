SPECIFICATION Spec
CONSTANTS
    f = f
    g = g
    Files <- MCFiles
    MaxSaves = 3
    MaxNest = 2
    MaxScript = 3
    Programs <- MCPrograms
CHECK_DEADLOCK FALSE
INVARIANTS NoOrphans OneTextEach DetachedStaysDetached
PROPERTIES SavesAreNoticed StatementsSeeSaves
