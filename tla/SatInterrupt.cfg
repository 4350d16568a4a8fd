CONSTANTS
    Order = 4
    BAFiles <- InputBAFiles
    GarbageOrders = {0, 2}
    DimacsFiles <- InputDimacsFiles
SPECIFICATION FairSpec
PROPERTY InterruptTerminatesVoluntarily
CHECK_DEADLOCK FALSE
