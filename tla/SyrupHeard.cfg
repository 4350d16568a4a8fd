CONSTANTS
    nbThreads = 1
    maxsize = 8
    Learnt <- LearntBy
    nbsolvers = 2
    Var = {x}
    None = None
SPECIFICATION Spec
PROPERTY FinishIsHeard
CHECK_DEADLOCK FALSE
