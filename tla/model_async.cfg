SPECIFICATION FairSpec
CONSTANTS
    Activity <- MCActivity
    Resource <- TwoResources
    Any <- MCAny
    CurrentTag <- MCCurrentTag
    MaxScore = 2
    Usable <- Two
    Linkable <- One
    Uses = "any"
    Queries <- UsedAnyAllCurrent
    MaxBus = 2
    Lockstep = FALSE
    Missing <- Second
    Forgets = FALSE
INVARIANTS
    BoundedRows
PROPERTIES
    RowsLeaveForAReason
    QuietSettles
    MissingFilesLeave
