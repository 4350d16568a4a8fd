CONSTANTS
    nbThreads = 3
    maxsize = 12
    Learnt <- LearntBy
    nbsolvers = 2
    Var = {x, y}
    None = None
SPECIFICATION Spec
INVARIANTS TypesOK RoomIsReclaimed AnswerIsRight
PROPERTIES ImplementsFifo ThreadsEnd
CHECK_DEADLOCK FALSE
