SPECIFICATION Spec
CONSTANTS
    Activity <- MCActivity
    Resource <- ThreeResources
    Any <- MCAny
    CurrentTag <- MCCurrentTag
    MaxScore = 3
    Usable <- Three
    Linkable <- Nothing
    Uses = "rising"
    Queries <- UsedThree
    MaxBus = 2
    Lockstep = FALSE
    Missing <- Nothing
    Forgets = FALSE
INVARIANTS
    NoDuplicates
