SPECIFICATION FairSpec
CONSTANTS
    Schemas <- MCSchemas
    TableNames <- MCTableNames
    TablesOf <- MCTablesOf3
    Threads = 2
    Configs <- ModeConfigs
    MayCancel = TRUE
    MaxVersion = 1
    MaxFaults = 1
    MaxAttempts = 3
INVARIANTS IInv SlotKeptOnSuccess MetadataTrue
PROPERTIES FinishedFileIsFinal ImplementsJob DumpReturns WritersEnd
\* A dump that has ended stops; one that is stuck violates DumpReturns or WritersEnd.
CHECK_DEADLOCK FALSE
