SPECIFICATION Spec
CONSTANTS
    Schemas <- MCSchemas
    TableNames <- MCTableNames
    TablesOf <- MCTablesOf
    Threads = 2
    Configs <- FaultConfigs
    MayCancel = FALSE
    MaxVersion = 1
    MaxFaults = 2
    MaxAttempts = 2
INVARIANTS CompleteOnSuccess OneSnapshot NoSpuriousFailure MainFailureDropsSlot GivesUpAfterRetries
