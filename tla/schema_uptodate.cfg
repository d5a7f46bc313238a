SPECIFICATION MigrationSpec
CONSTANTS
    MaxCrashes <- MCMaxCrashes
INVARIANTS
    UpToDateMeansComplete
CHECK_DEADLOCK FALSE
