CONSTANTS
    Order = 4
    BAFiles <- InputBAFiles
    GarbageOrders = {0, 2}
    DimacsFiles <- InputDimacsFiles
SPECIFICATION FairSpec
INVARIANTS TypeOK InputIsRead LineGraphIsRight ReductionIsRight AnswerIsWritten
PROPERTY Returns
CHECK_DEADLOCK FALSE
