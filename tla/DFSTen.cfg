CONSTANTS
    N = 10
    Kind = "ten"
    Graphs <- InputGraphs
    root = 0
SPECIFICATION FairSpec
INVARIANTS TypeOK Consistent FoundIsColouring TrailColoured UndoneCompletely NotFoundIsRight
PROPERTY Halts
CHECK_DEADLOCK FALSE
