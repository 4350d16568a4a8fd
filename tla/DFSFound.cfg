CONSTANTS
    N = 7
    Kind = "subcubic"
    Graphs <- InputGraphs
    root = 0
SPECIFICATION Spec
INVARIANT FoundIsColouring
CHECK_DEADLOCK FALSE
