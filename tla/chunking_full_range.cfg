SPECIFICATION FairSpec
CONSTANTS
    Word <- MCWord
    Base = 2
    ChunkDigits = 4
    FileDigits = 1
    Files <- MCFiles
    Inputs <- MCInputs
    Rows <- MCRows
    MaxTurns = 3
PROPERTY Returns
CHECK_DEADLOCK FALSE
