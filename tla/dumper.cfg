SPECIFICATION Spec
CONSTANTS
    Writers = {w1, w2}
    Readers = {r1}
    MaxChunks = 2
    MaxAttempts = 3
    MaxFiles = 1
    Options <- MCOptions
    MaxLives = 2
SYMMETRY MCSymmetry
CONSTRAINT FewerLater
INVARIANTS IInv OptionsFit RegistryFree PoolsReleased OwnState NeverTooManyChunks RevertedBytesCountOnce
PROPERTY ProgressNeverFalls
CHECK_DEADLOCK FALSE
