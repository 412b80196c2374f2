SPECIFICATION Spec
CONSTANTS
    Schemas <- MCSchemas
    TableNames <- MCTableNames
    TablesOf <- MCTablesOf
    Threads = 2
    Configs <- CdcConfigs
    MayCancel = FALSE
    MaxVersion = 0
    MaxFaults = 1
    MaxAttempts = 3
INVARIANT WriterFailureDropsSlot
