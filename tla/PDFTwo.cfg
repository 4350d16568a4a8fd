CONSTANTS
    N = 5
    Kind = "five"
    Graphs <- InputGraphs
    root = 0
    T = 2
SPECIFICATION FairSpec
INVARIANTS TypeOK SettledOnReturn SoleFinderPublishes EverySearchIsClean NotFoundIsRight
PROPERTY Returns
CHECK_DEADLOCK FALSE
