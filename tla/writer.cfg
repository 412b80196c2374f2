SPECIFICATION FairSpec
CONSTANTS
    Result <- MCResult
    Configs <- MCConfigs
    BufLimit = 2
    PipeCap = 1
    MaxAttempts = 2
    MaxFaults = 2
    MayCancel = TRUE
INVARIANTS IInv FilesHoldTheRows FilesLoadable FilesOfTheRightSize PipeStopsFirst FailedAttemptUncounted CountedOnce
PROPERTY CallReturns
CHECK_DEADLOCK FALSE
