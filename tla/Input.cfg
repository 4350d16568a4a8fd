CONSTANTS
    L = 4
    Files <- InputFiles
    GarbageDegrees = {0, 3}
    M = 5
    SizesLong = {0, 9, 62, 63, 64, 4095, 4096, 258047, 258048, 300000}
    G6Lines <- InputLines
    N = 4
    Objects <- InputObjects
SPECIFICATION OneSpec
INVARIANTS TypesOK StoreInside ReadAsWritten GraphIsMatrix EveryPairRemoved
CHECK_DEADLOCK FALSE
