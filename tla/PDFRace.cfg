CONSTANTS
    N = 4
    Kind = "K4"
    Graphs <- InputGraphs
    root = 0
    T = 2
SPECIFICATION Spec
INVARIANT ReturnsColouring
CHECK_DEADLOCK FALSE
