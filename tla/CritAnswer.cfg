CONSTANTS
    L = 1
    Files <- InputFiles
    GarbageDegrees = {0, 3}
    M = 2
    SizesLong = {0, 9, 62, 63, 64, 4095, 4096, 258047, 258048, 300000}
    G6Lines <- InputLines
    N = 4
    Objects <- InputObjects
SPECIFICATION OneSpec
INVARIANT CriticalityIsAnswered
CHECK_DEADLOCK FALSE
