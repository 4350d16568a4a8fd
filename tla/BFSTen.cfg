CONSTANTS
    N = 10
    V <- MCV
    Graphs <- InputGraphs
    root = 0
    MaxDepth = 12
SPECIFICATION FairSpec
INVARIANTS TypeOK MapsConsistent NeverSucceeds PopsCurrentVertex FrontierListed NotColourableIsRight
PROPERTY Halts
CHECK_DEADLOCK FALSE
