SPECIFICATION Spec
CONSTANTS
    Activity <- MCActivity
    Resource <- TwoResources
    Any <- MCAny
    CurrentTag <- MCCurrentTag
    MaxScore = 2
    Usable <- Two
    Linkable <- Two
    Uses = "rising"
    Queries <- AllTwo
    MaxBus = 1
    Lockstep = TRUE
    Missing <- Nothing
    Forgets = FALSE
INVARIANTS
    ShowsOnlyMatches
