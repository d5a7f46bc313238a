SPECIFICATION Spec
CONSTANTS
    Activity <- MCActivity
    Resource <- ThreeResources
    Any <- MCAny
    CurrentTag <- MCCurrentTag
    MaxScore = 1
    Usable <- Nothing
    Linkable <- Three
    Uses = "rising"
    Queries <- LinkedCurrent
    MaxBus = 2
    Lockstep = FALSE
    Missing <- Nothing
    Forgets = FALSE
INVARIANTS
    ModelTypeOK
    LinkedExact
    LinkedOnce
    UserOrderKept
