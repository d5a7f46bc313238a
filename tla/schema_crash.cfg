SPECIFICATION MigrationSpec
CONSTANTS
    MaxCrashes <- MCMaxCrashes
INVARIANTS
    MigrationTypeOK
    OldRowsMoved
    RunCompletes
CHECK_DEADLOCK FALSE
